---- MODULE Spec2Model ----
(***************************************************************************)
(* DashCam-Home media pipeline: the stream process supervisor              *)
(* (backend/stream_processor.py), its callers in backend/camera_manager.py *)
(* and frontend/api_routes.py, and the recording controller                *)
(* (backend/recording_manager.py) with the motion poller's trigger         *)
(* (backend/motion_detector.py).                                           *)
(*                                                                         *)
(* Request handlers run on threads (Flask's server is threaded), so every  *)
(* handler is modelled statement by statement: one action per access to    *)
(* the shared dictionaries, with the thread's position in th[t].pc.        *)
(* External ffmpeg processes and the monitor thread of each stream process *)
(* are processes of their own.                                             *)
(***************************************************************************)
EXTENDS Integers, FiniteSets, Sequences, TLC

\* ---------------------------------------------------------------- bounds
NumCameras == 1
NumThreads == 2
MaxProcs == 2
NumTokens == 2
\* The camera's configured cooldown, in clock ticks (motion_detector.py
\* line 102; 60 seconds when not configured).
Cooldown == 2
\* The clock runs from StartTime to MaxTime.  time.time() is the time since
\* 1970, so it is beyond any cooldown when the program starts.
StartTime == Cooldown + 1
MaxTime == StartTime + 4
\* The configured retention periods tried, in clock ticks (hours), and the
\* number of files in the media directories.
MaxRetention == 2
MaxFiles == 3
\* The capacity of the pipe that holds a recording process's output, in
\* writes.
PipeCapacity == 1
\* The number of cv2.VideoCapture objects the poller creates.
MaxCaptures == 2

CameraIds == 1..NumCameras
Threads == 1..NumThreads
\* The motion poller thread (MotionDetector.thread).
Poller == 0
AllThreads == Threads \cup {Poller}
Pids == 1..MaxProcs
Tokens == 1..NumTokens

\* Python's None where a token is expected: dict.get's default, a missing
\* request argument.
NoToken == 0
\* No process handle held in the local variable `process`.
NoProc == 0

VARIABLES
    cameras,        \* CameraManager.cameras: camera id -> status field
    processes,      \* StreamProcessor.processes: camera id -> process handle
    stream_tokens,  \* StreamProcessor.stream_tokens: camera id -> token
    proc,           \* every ffmpeg process spawned by start_hls_stream, by pid
    recording_processes, \* RecordingManager.recording_processes: id -> handle
    rproc,          \* every ffmpeg process spawned by start_recording, by pid:
                    \* [cam, state, sig, out], sig the last thing
                    \* stop_recording sent it ("none", "q" on its stdin,
                    \* "kill"), out the output waiting in its pipes
    th,             \* request handler threads and the motion poller thread:
                    \* position, locals, result
    now,            \* the clock: what time.time() returns
    last_triggered, \* MotionDetector.last_triggered: camera id -> time
    motion_logged,  \* the audit log: camera id -> asctime of its latest
                    \* MOTION_DETECTED record (motion_detector.py line 107)
    files,          \* the files of the snapshots, clips and thumbnails
                    \* directories: [dir, cam, ext, mtime, locked]
    settings,       \* SettingsManager.settings, section 'storage':
                    \* [retention, auto_cleanup]
    sweeper,        \* RecordingManager.cleanup_thread: position and locals
    listing,        \* what the latest get_recordings call returned
    running,        \* MotionDetector.running
    motion_enabled, \* settings 'motion': camera id -> its 'enabled' flag
    video_captures, \* _run's local video_captures: camera id -> capture
    back_sub_algorithms,  \* _run's local back_sub_algorithms (its keys)
    captures,       \* every cv2.VideoCapture created by _run, by number:
                    \* [cam, opened, released, read]: the constructor
                    \* opened the source, release() was called, a frame
                    \* was read
    poll_todo,      \* the cameras of _run's `cameras` list (line 44) that
                    \* the for loop of line 47 has still to visit
    motion_settings \* _run's local motion_settings (line 45)

vars == <<cameras, processes, stream_tokens, proc, recording_processes, rproc,
          th, now, last_triggered, motion_logged, files, settings, sweeper,
          listing, running, motion_enabled, video_captures,
          back_sub_algorithms, captures, poll_todo, motion_settings>>
motionVars == <<now, last_triggered, motion_logged>>
mediaVars == <<files, settings, sweeper, listing>>
trackerVars == <<running, motion_enabled, video_captures, back_sub_algorithms,
                 captures, poll_todo, motion_settings>>
recVars == <<recording_processes, rproc>>
streamVars == <<processes, stream_tokens, proc>>

\* ------------------------------------------------------- dictionaries
\* d[k] = v
Put(d, k, v) == [x \in (DOMAIN d) \cup {k} |-> IF x = k THEN v ELSE d[x]]
\* del d[k]
Del(d, k) == [x \in (DOMAIN d) \ {k} |-> d[x]]
EmptyDict == [x \in {} |-> 0]

\* ------------------------------------------------------------ threads
\* op is the outermost handler the thread runs, cam its camera_id argument,
\* process the local variable `process` of stop_stream / start_hls_stream.
\* At pc "returned" the handler has returned ret (and the token tok) and the
\* response is on its way to the client ("raised": it ended with an
\* exception); Respond makes the thread free for the next request.
IdleThread ==
    [pc |-> "idle", op |-> "none", cam |-> 0, process |-> NoProc,
     ret |-> "none", tok |-> NoToken]

Idle(t) == th[t].pc = "idle"

Bool(b) == IF b THEN "true" ELSE "false"

\* Thread t moves to statement pc of handler op.
Goto(t, op, c, pc, p) ==
    th' = [th EXCEPT ![t] = [pc |-> pc, op |-> op, cam |-> c, process |-> p,
                             ret |-> "none", tok |-> NoToken]]

\* The handler op of thread t returns r.
Return(t, op, c, r, k) ==
    th' = [th EXCEPT ![t] = [pc |-> "returned", op |-> op, cam |-> c,
                             process |-> NoProc, ret |-> r, tok |-> k]]

Returned(t, op, r) ==
    th[t].pc = "returned" /\ th[t].op = op /\ th[t].ret = r

Respond(t) ==
    /\ th[t].pc = "returned"
    /\ th' = [th EXCEPT ![t] = IdleThread]
    /\ UNCHANGED <<mediaVars, trackerVars, motionVars, cameras, processes, stream_tokens, proc, recVars>>

\* camera_id None: the request has no camera_id argument (api_routes.py
\* line 220).
NoCamera == 0

\* ------------------------------------------------------------- settings
\* A key absent from the settings: get_setting returns the caller's
\* default (settings_manager.py lines 127-128).
NoSetting == -1

\* settings_manager.get_setting('storage.retention_period_hours', default)
GetRetention(default) ==
    IF settings.retention = NoSetting THEN default ELSE settings.retention

\* ------------------------------------------------------------- sweeper
\* The cleanup thread between two cycles (the wait of line 174 or 177).
\* Its locals are cutoff (cutoff_time), dirs (the directories still to
\* visit) and todo (the files of the listing still to visit); failed and
\* cleaned are what the cycle logged at lines 172 and 170; interval is the
\* length in seconds of the wait in progress, 0 during a cycle.
SweeperWaiting ==
    [pc |-> "wait", cutoff |-> 0, dirs |-> << >>, todo |-> {}, failed |-> {},
     cleaned |-> {}, interval |-> 0]

\* The directories in the order of line 163.
Dirs == <<"snapshots", "clips", "thumbnails">>
DirSet == {Dirs[i] : i \in 1..Len(Dirs)}

\* --------------------------------------------------------------- Init
\* The program after construction (main.py lines 33-60), with the media
\* directories holding the files f and the settings file the storage
\* section st.
InitWith(f, st) ==
    /\ cameras \in {[c \in S |-> "unset"] : S \in SUBSET CameraIds}
    /\ processes = EmptyDict
    /\ stream_tokens = EmptyDict
    /\ proc = << >>
    /\ recording_processes = EmptyDict
    /\ rproc = << >>
    /\ th = [t \in AllThreads |-> IdleThread]
    /\ now = StartTime
    /\ last_triggered = EmptyDict
    /\ motion_logged = EmptyDict
    /\ files = f
    /\ settings = st
    /\ sweeper = SweeperWaiting
    /\ listing = [camera |-> NoCamera, hours |-> 0, result |-> << >>]
    /\ running = TRUE
    /\ motion_enabled = [c \in CameraIds |-> TRUE]   \* 'motion' settings
    /\ video_captures = EmptyDict
    /\ back_sub_algorithms = {}
    /\ captures = << >>
    /\ poll_todo = {}
    /\ motion_settings = [c \in CameraIds |-> TRUE]

\* Empty media directories, no storage section in the settings file.
Init == InitWith({}, [retention |-> NoSetting, auto_cleanup |-> TRUE])

\* ------------------------------------------------------------- tokens
\* Mutant: the token is returned and not stored (line 19 left out).
GenerateStreamToken_NotStored(t, c) ==
    /\ Idle(t)
    /\ \E k \in Tokens : Return(t, "generate_stream_token", c, "token", k)
    /\ UNCHANGED <<mediaVars, trackerVars, motionVars, cameras, processes, stream_tokens, proc, recVars>>

\* Mutant: a token already registered is kept (setdefault in place of the
\* assignment of line 19); the new token is returned all the same.
GenerateStreamToken_KeepFirst(t, c) ==
    /\ Idle(t)
    /\ \E k \in Tokens :
          /\ stream_tokens' = IF c \in DOMAIN stream_tokens
                              THEN stream_tokens
                              ELSE Put(stream_tokens, c, k)
          /\ Return(t, "generate_stream_token", c, "token", k)
    /\ UNCHANGED <<mediaVars, trackerVars, motionVars, cameras, processes, proc, recVars>>

\* generate_stream_token: secrets.token_urlsafe is any token value.
GenerateStreamToken(t, c) ==
    /\ Idle(t)
    /\ \E k \in Tokens :
          /\ stream_tokens' = Put(stream_tokens, c, k)
          /\ Return(t, "generate_stream_token", c, "token", k)
    /\ UNCHANGED <<mediaVars, trackerVars, motionVars, cameras, processes, proc, recVars>>

\* d.get(camera_id): the value, or None
DictGet(d, c) == IF c \in DOMAIN d THEN d[c] ELSE NoToken

\* verify_stream_token(camera_id, token) over the token table d:
\* self.stream_tokens.get(camera_id) == token
VerifyResultIn(d, c, k) == DictGet(d, c) = k

\* The value verify_stream_token(camera_id, token) returns in this state.
VerifyResult(c, k) == VerifyResultIn(stream_tokens, c, k)

VerifyStreamToken(t, c, k) ==
    /\ Idle(t)
    /\ Return(t, "verify_stream_token", c, Bool(VerifyResult(c, k)), k)
    /\ UNCHANGED <<mediaVars, trackerVars, motionVars, cameras, processes, stream_tokens, proc, recVars>>

\* ------------------------------------------------- external processes
Spawned == 1..Len(proc)
Alive(p) == proc[p].state = "running"

\* subprocess.Popen: a new ffmpeg process for camera c; its monitor thread
\* is not started yet.
NewProc(c) ==
    [cam |-> c, state |-> "running", sig |-> "none", mon |-> "unstarted"]

\* p is the process self.processes holds for its camera.
Registered(p) ==
    proc[p].cam \in DOMAIN processes /\ processes[proc[p].cam] = p

\* Popen.terminate() / Popen.kill(): a signal reaches a process that is
\* still running; on one that has exited the call does nothing.
Signal(p, s) ==
    IF Alive(p) THEN [proc EXCEPT ![p].sig = s] ELSE proc

\* The ffmpeg process ends: on its own at any time (a crash, the camera
\* closing the connection), or after a signal.
ProcExit(p) ==
    /\ p \in Spawned
    /\ Alive(p)
    /\ proc' = [proc EXCEPT ![p].state = "exited"]
    /\ UNCHANGED <<mediaVars, trackerVars, motionVars, cameras, processes, stream_tokens, th, recVars>>

\* ------------------------------------------- HTTP reads of stream files
\* Files of camera c are in HLS_OUTPUT_DIR/<c>/ once an ffmpeg process was
\* launched with that output directory (it may not have written one yet,
\* and files stay after the process has ended).
HasStreamFiles(c) == \E p \in Spawned : proc[p].cam = c

\* main.py /streams/<path:filename>: send_from_directory(HLS_OUTPUT_DIR,
\* filename) for filename = "<c>/index.m3u8" or "<c>/segNNN.ts"; 404 when
\* the file does not exist.  The route reads no token.
ServeStream(t, c) ==
    /\ Idle(t)
    /\ \/ /\ HasStreamFiles(c)
          /\ Return(t, "serve_stream", c, "served", NoToken)
       \/ Return(t, "serve_stream", c, "404", NoToken)
    /\ UNCHANGED <<mediaVars, trackerVars, motionVars, cameras, processes, stream_tokens, proc, recVars>>

\* api_routes.py /api/streams/<camera_id>/<path:filename> with the query
\* argument token = k (None when absent).  Lines 47-52: abort(401) unless
\* the token is present and verifies.  Lines 72-79: the lookup
\* current_app.config['HLS_OUTPUT_DIR'] raises KeyError (main.py never
\* sets that key; send_from_directory is not imported in this module
\* either), the handler catches it and aborts with 404.
ServeStreamFile(t, c, k) ==
    /\ Idle(t)
    /\ Return(t, "serve_stream_file", c,
              IF k = NoToken \/ ~VerifyResult(c, k) THEN "401" ELSE "404", k)
    /\ UNCHANGED <<mediaVars, trackerVars, motionVars, cameras, processes, stream_tokens, proc, recVars>>

\* ------------------------------------- StreamProcessor.start_hls_stream
\* Mutant: the entry is written before the spawn, so a spawn error leaves
\* an entry behind.
StartHlsStream_Popen_EntryFirst(t, c) ==
    /\ Idle(t)
    /\ \/ /\ Len(proc) < MaxProcs
          /\ proc' = Append(proc, NewProc(c))
          /\ Goto(t, "start_hls_stream", c, "sh_register", Len(proc) + 1)
          /\ UNCHANGED processes
       \/ /\ Return(t, "start_hls_stream", c, "false", NoToken)
          /\ processes' = Put(processes, c, NoProc)
          /\ UNCHANGED proc
    /\ UNCHANGED <<mediaVars, trackerVars, motionVars, cameras, stream_tokens, recVars>>

\* Lines 28-55: mkdir, build the command, Popen.  Any exception (spawn
\* error) is caught at line 63 and the call returns False.
StartHlsStream_Popen(t, c) ==
    /\ Idle(t)
    /\ \/ /\ Len(proc) < MaxProcs
          /\ proc' = Append(proc, NewProc(c))
          /\ Goto(t, "start_hls_stream", c, "sh_register", Len(proc) + 1)
       \/ /\ Return(t, "start_hls_stream", c, "false", NoToken)
          /\ UNCHANGED proc
    /\ UNCHANGED <<mediaVars, trackerVars, motionVars, cameras, processes, stream_tokens, recVars>>

\* Line 56: self.processes[camera_id] = process
StartHlsStream_Register(t) ==
    /\ th[t].pc = "sh_register"
    /\ processes' = Put(processes, th[t].cam, th[t].process)
    /\ Goto(t, th[t].op, th[t].cam, "sh_thread", th[t].process)
    /\ UNCHANGED <<mediaVars, trackerVars, motionVars, cameras, stream_tokens, proc, recVars>>

\* Lines 58-61: start the monitor thread, return True.
StartHlsStream_Thread(t) ==
    /\ th[t].pc = "sh_thread"
    /\ proc' = [proc EXCEPT ![th[t].process].mon = "wait"]
    /\ Return(t, th[t].op, th[t].cam, "true", NoToken)
    /\ UNCHANGED <<mediaVars, trackerVars, motionVars, cameras, processes, stream_tokens, recVars>>

\* ------------------------------------------ StreamProcessor.stop_stream
\* What the caller of StreamProcessor.stop_stream does with its result r:
\* the request itself (op "stop_stream") returns it; CameraManager.stop_stream
\* (lines 227-232) goes on to set the status field when r is True and returns
\* r otherwise, to api_routes.restart_stream or to remove_camera (line 140),
\* which ignore it and go on; an exception propagates out of every caller.
StopStream_Return(t, r) ==
    IF th[t].op = "stop_stream" \/ r = "raised"
    THEN Return(t, th[t].op, th[t].cam, r, NoToken)
    ELSE IF r = "true"
    THEN Goto(t, th[t].op, th[t].cam, "cs_status", NoProc)
    ELSE IF th[t].op = "restart_stream"
    THEN Goto(t, th[t].op, th[t].cam, "st_cameras", NoProc)
    ELSE IF th[t].op = "remove_camera"
    THEN Goto(t, th[t].op, th[t].cam, "rc_recording", NoProc)
    ELSE Return(t, th[t].op, th[t].cam, r, NoToken)

\* Line 69: if camera_id in self.processes; lines 84-86: else return False.
\* Reached from CameraManager.stop_stream (line 227).
StopStream_Check(t) ==
    /\ th[t].pc = "ss_check"
    /\ IF th[t].cam \in DOMAIN processes
       THEN Goto(t, th[t].op, th[t].cam, "ss_get", NoProc)
       ELSE StopStream_Return(t, "false")
    /\ UNCHANGED <<mediaVars, trackerVars, motionVars, cameras, processes, stream_tokens, proc, recVars>>

\* Mutant: the failure branch cleans the token up as the success branch
\* does (lines 80-81 moved out of the if).
CallStopStream_Cleanup(t, c) ==
    /\ Idle(t)
    /\ IF c \in DOMAIN processes
       THEN Goto(t, "stop_stream", c, "ss_get", NoProc) /\ UNCHANGED stream_tokens
       ELSE /\ Return(t, "stop_stream", c, "false", NoToken)
            /\ stream_tokens' = Del(stream_tokens, c)
    /\ UNCHANGED <<mediaVars, trackerVars, motionVars, cameras, processes, proc, recVars>>

\* A request calls StreamProcessor.stop_stream(c): line 69, lines 84-86.
CallStopStream(t, c) ==
    /\ Idle(t)
    /\ IF c \in DOMAIN processes
       THEN Goto(t, "stop_stream", c, "ss_get", NoProc)
       ELSE Return(t, "stop_stream", c, "false", NoToken)
    /\ UNCHANGED <<mediaVars, trackerVars, motionVars, cameras, processes, stream_tokens, proc, recVars>>

\* Line 70: process = self.processes[camera_id]  (KeyError when the entry
\* was deleted since line 69).
StopStream_Get(t) ==
    /\ th[t].pc = "ss_get"
    /\ IF th[t].cam \in DOMAIN processes
       THEN Goto(t, th[t].op, th[t].cam, "ss_terminate", processes[th[t].cam])
       ELSE StopStream_Return(t, "raised")
    /\ UNCHANGED <<mediaVars, trackerVars, motionVars, cameras, processes, stream_tokens, proc, recVars>>

\* Lines 71-75: process.terminate() sends SIGTERM, or raises and the
\* handler goes to line 76.
StopStream_Terminate(t) ==
    /\ th[t].pc = "ss_terminate"
    /\ \/ /\ proc' = Signal(th[t].process, "term")
          /\ Goto(t, th[t].op, th[t].cam, "ss_del", NoProc)
       \/ /\ Goto(t, th[t].op, th[t].cam, "ss_kill", th[t].process)
          /\ UNCHANGED proc
    /\ UNCHANGED <<mediaVars, trackerVars, motionVars, cameras, processes, stream_tokens, recVars>>

\* Line 76: process.kill() in the except clause sends SIGKILL; when it
\* raises too, the exception leaves stop_stream.
StopStream_Kill(t) ==
    /\ th[t].pc = "ss_kill"
    /\ \/ /\ proc' = Signal(th[t].process, "kill")
          /\ Goto(t, th[t].op, th[t].cam, "ss_del", NoProc)
       \/ /\ StopStream_Return(t, "raised")
          /\ UNCHANGED proc
    /\ UNCHANGED <<mediaVars, trackerVars, motionVars, cameras, processes, stream_tokens, recVars>>

\* Line 79: del self.processes[camera_id]  (KeyError when absent).
StopStream_DelProcess(t) ==
    /\ th[t].pc = "ss_del"
    /\ IF th[t].cam \in DOMAIN processes
       THEN /\ processes' = Del(processes, th[t].cam)
            /\ Goto(t, th[t].op, th[t].cam, "ss_token", NoProc)
       ELSE /\ StopStream_Return(t, "raised")
            /\ UNCHANGED processes
    /\ UNCHANGED <<mediaVars, trackerVars, motionVars, cameras, stream_tokens, proc, recVars>>

\* Mutant: the token is left in place (lines 80-81 left out).
StopStream_TokenCheck_Skip(t) ==
    /\ th[t].pc = "ss_token"
    /\ StopStream_Return(t, "true")
    /\ UNCHANGED <<mediaVars, trackerVars, motionVars, cameras, processes, stream_tokens, proc, recVars>>

\* Line 80: if camera_id in self.stream_tokens; line 83: return True.
StopStream_TokenCheck(t) ==
    /\ th[t].pc = "ss_token"
    /\ IF th[t].cam \in DOMAIN stream_tokens
       THEN Goto(t, th[t].op, th[t].cam, "ss_deltoken", NoProc)
       ELSE StopStream_Return(t, "true")
    /\ UNCHANGED <<mediaVars, trackerVars, motionVars, cameras, processes, stream_tokens, proc, recVars>>

\* Line 81: del self.stream_tokens[camera_id]; line 83: return True.
StopStream_DelToken(t) ==
    /\ th[t].pc = "ss_deltoken"
    /\ IF th[t].cam \in DOMAIN stream_tokens
       THEN /\ stream_tokens' = Del(stream_tokens, th[t].cam)
            /\ StopStream_Return(t, "true")
       ELSE /\ StopStream_Return(t, "raised")
            /\ UNCHANGED stream_tokens
    /\ UNCHANGED <<mediaVars, trackerVars, motionVars, cameras, processes, proc, recVars>>

\* ------------------------------------------- CameraManager.stop_stream
\* Lines 223-225: no entry in stream_processor.processes: return False;
\* line 227: otherwise call stream_processor.stop_stream.  A restart
\* (api_routes.restart_stream) ignores the result and goes on to
\* CameraManager.start_stream.
CM_StopStream_Check(t, c, op) ==
    /\ Idle(t)
    /\ IF c \in DOMAIN processes
       THEN Goto(t, op, c, "ss_check", NoProc)
       ELSE IF op = "restart_stream"
       THEN Goto(t, op, c, "st_cameras", NoProc)
       ELSE Return(t, op, c, "false", NoToken)
    /\ UNCHANGED <<mediaVars, trackerVars, motionVars, cameras, processes, stream_tokens, proc, recVars>>

\* Mutant: the status field is left at 'streaming' after the stop.
CM_StopStream_Status_Streaming(t) ==
    /\ th[t].pc = "cs_status"
    /\ cameras' = IF th[t].cam \in DOMAIN cameras
                  THEN [cameras EXCEPT ![th[t].cam] = "streaming"]
                  ELSE cameras
    /\ IF th[t].op = "restart_stream"
       THEN Goto(t, th[t].op, th[t].cam, "st_cameras", NoProc)
       ELSE Return(t, th[t].op, th[t].cam, "true", NoToken)
    /\ UNCHANGED <<mediaVars, trackerVars, motionVars, processes, stream_tokens, proc, recVars>>

\* Lines 228-232: success: the status field becomes 'connected' when the
\* camera is known; return True.
CM_StopStream_Status(t) ==
    /\ th[t].pc = "cs_status"
    /\ cameras' = IF th[t].cam \in DOMAIN cameras
                  THEN [cameras EXCEPT ![th[t].cam] = "connected"]
                  ELSE cameras
    /\ IF th[t].op = "restart_stream"
       THEN Goto(t, th[t].op, th[t].cam, "st_cameras", NoProc)
       ELSE IF th[t].op = "remove_camera"
       THEN Goto(t, th[t].op, th[t].cam, "rc_recording", NoProc)
       ELSE Return(t, th[t].op, th[t].cam, "true", NoToken)
    /\ UNCHANGED <<mediaVars, trackerVars, motionVars, processes, stream_tokens, proc, recVars>>

\* ------------------------------------------ CameraManager.start_stream
\* Lines 176-178: unknown camera: return False.
CM_StartStream_Cameras(t) ==
    /\ th[t].pc = "st_cameras"
    /\ IF th[t].cam \in DOMAIN cameras
       THEN Goto(t, th[t].op, th[t].cam, "st_processes", NoProc)
       ELSE Return(t, th[t].op, th[t].cam, "false", NoToken)
    /\ UNCHANGED <<mediaVars, trackerVars, motionVars, cameras, processes, stream_tokens, proc, recVars>>

\* Lines 180-182: a stream is already running: return True.  Otherwise
\* line 190 calls self.onvif_controller.get_stream_uri, a method that
\* ONVIFController (backend/onvif_controller.py) does not define (it defines
\* get_rtsp_uri): AttributeError, outside any try, leaves start_stream
\* before stream_processor.start_hls_stream (line 206) is reached.
CM_StartStream_Processes(t) ==
    /\ th[t].pc = "st_processes"
    /\ Return(t, th[t].op, th[t].cam,
              IF th[t].cam \in DOMAIN processes THEN "true" ELSE "raised", NoToken)
    /\ UNCHANGED <<mediaVars, trackerVars, motionVars, cameras, processes, stream_tokens, proc, recVars>>

\* A request calls CameraManager.start_stream(c) (api_routes.start_stream):
\* lines 176-178.
CallCMStartStream(t, c) ==
    /\ Idle(t)
    /\ IF c \in DOMAIN cameras
       THEN Goto(t, "cm_start_stream", c, "st_processes", NoProc)
       ELSE Return(t, "cm_start_stream", c, "false", NoToken)
    /\ UNCHANGED <<mediaVars, trackerVars, motionVars, cameras, processes, stream_tokens, proc, recVars>>

\* ------------------------------------ StreamProcessor._monitor_process
\* The monitor thread of process p, started at line 58.  Lines 98-108: it
\* starts the two log threads, blocks in process.wait() and joins them.
\* Line 111: if camera_id in self.processes: log the exit as unexpected
\* (line 112), else as a graceful stop (line 121).
Monitor_Check(p) ==
    /\ p \in Spawned
    /\ proc[p].mon = "wait"
    /\ ~Alive(p)
    /\ proc' = [proc EXCEPT ![p].mon =
                  IF proc[p].cam \in DOMAIN processes
                  THEN "del_process" ELSE "done_graceful"]
    /\ UNCHANGED <<mediaVars, trackerVars, motionVars, cameras, processes, stream_tokens, th, recVars>>

\* Mutant: crash cleanup relaunches the transcoder and registers the new
\* process in place of the one that ended.
Monitor_DelProcess_Relaunch(p) ==
    /\ p \in Spawned
    /\ proc[p].mon = "del_process"
    /\ IF proc[p].cam \in DOMAIN processes /\ Len(proc) < MaxProcs
       THEN /\ processes' = Put(processes, proc[p].cam, Len(proc) + 1)
            /\ proc' = Append([proc EXCEPT ![p].mon = "token"],
                              [NewProc(proc[p].cam) EXCEPT !.mon = "wait"])
       ELSE /\ proc' = [proc EXCEPT ![p].mon = "raised"]
            /\ UNCHANGED processes
    /\ UNCHANGED <<mediaVars, trackerVars, motionVars, cameras, stream_tokens, th, recVars>>

\* Line 117: del self.processes[camera_id]; KeyError ends the thread.
Monitor_DelProcess(p) ==
    /\ p \in Spawned
    /\ proc[p].mon = "del_process"
    /\ IF proc[p].cam \in DOMAIN processes
       THEN /\ processes' = Del(processes, proc[p].cam)
            /\ proc' = [proc EXCEPT ![p].mon = "token"]
       ELSE /\ proc' = [proc EXCEPT ![p].mon = "raised"]
            /\ UNCHANGED processes
    /\ UNCHANGED <<mediaVars, trackerVars, motionVars, cameras, stream_tokens, th, recVars>>

\* Mutant: crash cleanup removes the process entry only (lines 118-119
\* left out).
Monitor_TokenCheck_Skip(p) ==
    /\ p \in Spawned
    /\ proc[p].mon = "token"
    /\ proc' = [proc EXCEPT ![p].mon = "done_crash"]
    /\ UNCHANGED <<mediaVars, trackerVars, motionVars, cameras, processes, stream_tokens, th, recVars>>

\* Line 118: if camera_id in self.stream_tokens
Monitor_TokenCheck(p) ==
    /\ p \in Spawned
    /\ proc[p].mon = "token"
    /\ proc' = [proc EXCEPT ![p].mon =
                  IF proc[p].cam \in DOMAIN stream_tokens
                  THEN "del_token" ELSE "done_crash"]
    /\ UNCHANGED <<mediaVars, trackerVars, motionVars, cameras, processes, stream_tokens, th, recVars>>

\* Line 119: del self.stream_tokens[camera_id]; KeyError ends the thread.
Monitor_DelToken(p) ==
    /\ p \in Spawned
    /\ proc[p].mon = "del_token"
    /\ IF proc[p].cam \in DOMAIN stream_tokens
       THEN /\ stream_tokens' = Del(stream_tokens, proc[p].cam)
            /\ proc' = [proc EXCEPT ![p].mon = "done_crash"]
       ELSE /\ proc' = [proc EXCEPT ![p].mon = "raised"]
            /\ UNCHANGED stream_tokens
    /\ UNCHANGED <<mediaVars, trackerVars, motionVars, cameras, processes, th, recVars>>

\* The monitor of p logged "stopped unexpectedly" (line 112).
CrashLogged(p) ==
    proc[p].mon \in {"del_process", "token", "del_token", "done_crash", "raised"}
\* The monitor of p logged "has been stopped gracefully" (line 121).
GracefulLogged(p) == proc[p].mon = "done_graceful"
\* The monitor thread of p has ended.
MonitorDone(p) == proc[p].mon \in {"done_crash", "done_graceful", "raised"}

\* -------------------------------------- RecordingManager.start_recording
RSpawned == 1..Len(rproc)
RAlive(q) == rproc[q].state = "running"

\* Mutant: the poller stores the timestamp only when the call succeeded.
StartRecording_Return_StampOnSuccess(t, c, r) ==
    IF t = Poller
    THEN Goto(t, "motion_trigger", c,
              IF r = "failure" THEN "md_suppressed" ELSE "md_last_triggered",
              NoProc)
    ELSE Return(t, "start_recording", c, r, NoToken)

\* start_recording returns r: to the request (api_routes.start_recording,
\* line 235), or to the motion poller (motion_detector.py line 108), which
\* ignores the result and goes on to line 109.
StartRecording_Return(t, c, r) ==
    IF t = Poller
    THEN Goto(t, "motion_trigger", c, "md_last_triggered", NoProc)
    ELSE Return(t, "start_recording", c, r, NoToken)

\* Mutant: the test of line 73 is left out.
StartRecording_Check_Skip(t, c, op) ==
    /\ Idle(t)
    /\ Goto(t, op, c, "sr_camera", NoProc)
    /\ UNCHANGED <<mediaVars, trackerVars, motionVars, cameras, streamVars, recVars>>

\* Lines 73-75: recording already active: return None.
StartRecording_Test(t, c, op) ==
    IF c \in DOMAIN recording_processes
    THEN StartRecording_Return(t, c, "failure")
    ELSE Goto(t, op, c, "sr_camera", NoProc)

\* start_recording is called by a request (api_routes.py line 234).
StartRecording_Check(t, c, op) ==
    /\ Idle(t)
    /\ StartRecording_Test(t, c, op)
    /\ UNCHANGED <<mediaVars, trackerVars, motionVars, cameras, streamVars, recVars>>

\* An exception leaves start_recording: the request ends with it; in the
\* poller, which calls at line 108 outside any try, it leaves _run and the
\* thread ends.
StartRecording_Raise(t, c) ==
    IF t = Poller
    THEN Goto(t, "motion_trigger", c, "dead", NoProc)
    ELSE Return(t, "start_recording", c, "raised", NoToken)

\* Lines 77-87: camera_manager.get_camera_status; unknown camera: None.
\* Otherwise the RTSP URI is resolved over ONVIF or, failing that, built
\* from the camera's fields: a stored configuration without 'username',
\* 'password' or 'ip' raises KeyError at lines 85-86, outside the try.
StartRecording_Camera(t) ==
    /\ th[t].pc = "sr_camera"
    /\ IF th[t].cam \in DOMAIN cameras
       THEN \/ Goto(t, th[t].op, th[t].cam, "sr_popen", NoProc)
            \/ StartRecording_Raise(t, th[t].cam)
       ELSE StartRecording_Return(t, th[t].cam, "failure")
    /\ UNCHANGED <<mediaVars, trackerVars, motionVars, cameras, streamVars, recVars>>

\* Lines 89-103: build the command, Popen; lines 107-109: a spawn error
\* returns None.
StartRecording_Popen(t) ==
    /\ th[t].pc = "sr_popen"
    /\ \/ /\ Len(rproc) < MaxProcs
          /\ rproc' = Append(rproc, [cam |-> th[t].cam, state |-> "running",
                                   sig |-> "none", out |-> 0])
          /\ Goto(t, th[t].op, th[t].cam, "sr_register", Len(rproc) + 1)
       \/ /\ StartRecording_Return(t, th[t].cam, "failure")
          /\ UNCHANGED rproc
    /\ UNCHANGED <<mediaVars, trackerVars, motionVars, cameras, streamVars, recording_processes>>

\* Lines 104-106: self.recording_processes[camera_id] = process; return
\* the identifier.
StartRecording_Register(t) ==
    /\ th[t].pc = "sr_register"
    /\ recording_processes' = Put(recording_processes, th[t].cam, th[t].process)
    /\ StartRecording_Return(t, th[t].cam, "active")
    /\ UNCHANGED <<mediaVars, trackerVars, motionVars, cameras, streamVars, rproc>>

\* Line 103 gives the process pipes for stdout and stderr, and no
\* statement of the repository reads them.  The process writes its
\* progress and its messages into them until they are full.
RecProcWrite(q) ==
    /\ q \in RSpawned
    /\ RAlive(q)
    /\ rproc[q].out < PipeCapacity
    /\ rproc' = [rproc EXCEPT ![q].out = @ + 1]
    /\ UNCHANGED <<mediaVars, trackerVars, motionVars, cameras, streamVars,
                   recording_processes, th>>

\* With its pipe full the process is blocked in its next write.
RecBlocked(q) == RAlive(q) /\ rproc[q].out = PipeCapacity

\* The recording ffmpeg process ends: on its own, or after the quit
\* command or SIGKILL.  A process blocked in a write neither ends on its
\* own nor reads its stdin; SIGKILL ends it.
RecProcExit(q) ==
    /\ q \in RSpawned
    /\ RAlive(q)
    /\ RecBlocked(q) => rproc[q].sig = "kill"
    /\ rproc' = [rproc EXCEPT ![q].state = "exited"]
    /\ UNCHANGED <<mediaVars, trackerVars, motionVars, cameras, streamVars, recording_processes, th>>

\* --------------------------------------- RecordingManager.stop_recording
\* b'q' written to the stdin of a running process / Popen.kill(); neither
\* reaches a process that has exited.
RSignal(q, s) ==
    IF RAlive(q) THEN [rproc EXCEPT ![q].sig = s] ELSE rproc

StopRecording_Return(t, r) ==
    IF th[t].op = "remove_camera" /\ r # "raised"
    THEN Goto(t, th[t].op, th[t].cam, "rc_del", NoProc)
    ELSE Return(t, th[t].op, th[t].cam, r, NoToken)

\* Lines 113-115: no recording for the camera: return False.
CallStopRecording(t, c) ==
    /\ Idle(t)
    /\ IF c \in DOMAIN recording_processes
       THEN Goto(t, "stop_recording", c, "rs_get", NoProc)
       ELSE Return(t, "stop_recording", c, "false", NoToken)
    /\ UNCHANGED <<mediaVars, trackerVars, motionVars, cameras, streamVars, recVars>>

\* Line 117: process = self.recording_processes[camera_id]  (KeyError when
\* the entry went away since line 113).
StopRecording_Get(t) ==
    /\ th[t].pc = "rs_get"
    /\ IF th[t].cam \in DOMAIN recording_processes
       THEN Goto(t, th[t].op, th[t].cam, "rs_write",
                 recording_processes[th[t].cam])
       ELSE StopRecording_Return(t, "raised")
    /\ UNCHANGED <<mediaVars, trackerVars, motionVars, cameras, streamVars, recVars>>

\* Lines 119-120: process.stdin.write(b'q'); flush().  The write reaches a
\* running process; it raises OSError (a broken pipe: line 123), or some
\* other exception, which line 126 catches and line 127 only logs.
StopRecording_Write(t) ==
    /\ th[t].pc = "rs_write"
    /\ \/ /\ RAlive(th[t].process)
          /\ rproc' = RSignal(th[t].process, "q")
          /\ Goto(t, th[t].op, th[t].cam, "rs_wait", th[t].process)
       \/ /\ Goto(t, th[t].op, th[t].cam, "rs_kill", th[t].process)
          /\ UNCHANGED rproc
       \/ /\ Goto(t, th[t].op, th[t].cam, "rs_del", th[t].process)
          /\ UNCHANGED rproc
    /\ UNCHANGED <<mediaVars, trackerVars, motionVars, cameras, streamVars, recording_processes>>

\* Lines 121-122: process.wait(timeout=10) returns once the process has
\* exited; a process still running after 10 s raises TimeoutExpired
\* (line 123).
StopRecording_Wait(t) ==
    /\ th[t].pc = "rs_wait"
    /\ IF RAlive(th[t].process)
       THEN Goto(t, th[t].op, th[t].cam, "rs_kill", th[t].process)
       ELSE Goto(t, th[t].op, th[t].cam, "rs_del", th[t].process)
    /\ UNCHANGED <<mediaVars, trackerVars, motionVars, cameras, streamVars, recVars>>

\* Lines 124-125: process.kill() in the except clause sends SIGKILL; when
\* it raises too, the exception leaves stop_recording.
StopRecording_Kill(t) ==
    /\ th[t].pc = "rs_kill"
    /\ \/ /\ rproc' = RSignal(th[t].process, "kill")
          /\ Goto(t, th[t].op, th[t].cam, "rs_del", th[t].process)
       \/ /\ StopRecording_Return(t, "raised")
          /\ UNCHANGED rproc
    /\ UNCHANGED <<mediaVars, trackerVars, motionVars, cameras, streamVars, recording_processes>>

\* Mutant: line 129 is left out.
StopRecording_Del_KeepEntry(t) ==
    /\ th[t].pc = "rs_del"
    /\ StopRecording_Return(t, "true")
    /\ UNCHANGED <<mediaVars, trackerVars, motionVars, cameras, streamVars, recVars>>

\* Lines 129-130: del self.recording_processes[camera_id]  (KeyError when
\* absent); return True.
StopRecording_Del(t) ==
    /\ th[t].pc = "rs_del"
    /\ IF th[t].cam \in DOMAIN recording_processes
       THEN /\ recording_processes' = Del(recording_processes, th[t].cam)
            /\ StopRecording_Return(t, "true")
       ELSE /\ StopRecording_Return(t, "raised")
            /\ UNCHANGED recording_processes
    /\ UNCHANGED <<mediaVars, trackerVars, motionVars, cameras, streamVars, rproc>>

\* ------------------------------------------ CameraManager.remove_camera
\* Lines 138-140: an unknown camera: return False.  A camera with a stream:
\* self.stop_stream(camera_id), whose result is ignored.
RemoveCamera_Call(t, c) ==
    /\ Idle(t)
    /\ IF c \notin DOMAIN cameras
       THEN Return(t, "remove_camera", c, "false", NoToken)
       ELSE IF c \in DOMAIN processes
       THEN Goto(t, "remove_camera", c, "ss_check", NoProc)
       ELSE Goto(t, "remove_camera", c, "rc_recording", NoProc)
    /\ UNCHANGED <<mediaVars, trackerVars, motionVars, cameras, streamVars, recVars>>

\* Lines 141-142: a camera that is recording:
\* recording_manager.stop_recording(camera_id), whose result is ignored.
RemoveCamera_Recording(t) ==
    /\ th[t].pc = "rc_recording"
    /\ IF th[t].cam \in DOMAIN recording_processes
       THEN Goto(t, th[t].op, th[t].cam, "rs_get", NoProc)
       ELSE Goto(t, th[t].op, th[t].cam, "rc_del", NoProc)
    /\ UNCHANGED <<mediaVars, trackerVars, motionVars, cameras, streamVars, recVars>>

\* Lines 145-151: del self.cameras[camera_id] (KeyError when absent), the
\* ONVIF client is dropped, the configuration is removed from the settings
\* and saved; return True.
RemoveCamera_Del(t) ==
    /\ th[t].pc = "rc_del"
    /\ IF th[t].cam \in DOMAIN cameras
       THEN /\ cameras' = Del(cameras, th[t].cam)
            /\ Return(t, th[t].op, th[t].cam, "true", NoToken)
       ELSE /\ Return(t, th[t].op, th[t].cam, "raised", NoToken)
            /\ UNCHANGED cameras
    /\ UNCHANGED <<mediaVars, trackerVars, motionVars, streamVars, recVars>>

\* ------------------------------------------------ MotionDetector._run
\* time.time() moves on; it does so at any point of any handler.
Tick ==
    /\ now < MaxTime
    /\ now' = now + 1
    /\ UNCHANGED <<mediaVars, trackerVars, cameras, streamVars, recVars, th,
                   last_triggered,
                   motion_logged>>

\* Lines 102-105: time.time() - self.last_triggered.get(cam_id, 0) > cooldown
CooldownPassed(c) ==
    now - (IF c \in DOMAIN last_triggered THEN last_triggered[c] ELSE 0)
        > Cooldown

\* The poller at the head of the for loop of line 47.
PollerInLoop ==
    [pc |-> "md_camera", op |-> "motion_poll", cam |-> 0, process |-> NoProc,
     ret |-> "none", tok |-> NoToken]

\* The poller thread has ended: _run returned, or an exception left it.
PollerEnded == th[Poller].pc \in {"finished", "dead"}

\* Lines 43-45: `while self.running` holds: a cycle begins with the list of
\* the cameras and the 'motion' settings as they are now.
Poller_Cycle ==
    /\ Idle(Poller)
    /\ running
    /\ th' = [th EXCEPT ![Poller] = PollerInLoop]
    /\ poll_todo' = DOMAIN cameras
    /\ motion_settings' = motion_enabled
    /\ UNCHANGED <<mediaVars, motionVars, cameras, streamVars, recVars, running,
                   motion_enabled, video_captures, back_sub_algorithms,
                   captures>>

\* cap.release()
Release(k) == [captures EXCEPT ![k].released = TRUE]

\* Lines 43 and 113-116: `while self.running` fails: every capture of
\* video_captures is released and _run returns.
Poller_Exit ==
    /\ Idle(Poller)
    /\ ~running
    /\ captures' = [k \in DOMAIN captures |->
                      IF \E c \in DOMAIN video_captures : video_captures[c] = k
                      THEN [captures[k] EXCEPT !.released = TRUE]
                      ELSE captures[k]]
    /\ th' = [th EXCEPT ![Poller].pc = "finished"]
    /\ UNCHANGED <<mediaVars, motionVars, cameras, streamVars, recVars, running,
                   motion_enabled, video_captures, back_sub_algorithms,
                   poll_todo, motion_settings>>

\* The for loop of line 47 is at camera c.
AtCamera(c) == th[Poller].pc = "md_camera" /\ c \in poll_todo

\* cam_motion_settings.get('enabled', False), lines 49-51.
MotionEnabled(c) == c \in DOMAIN motion_settings /\ motion_settings[c]

\* Mutant: the disabled camera's capture is kept.
Poller_Disabled_Keep(c) ==
    /\ AtCamera(c)
    /\ ~MotionEnabled(c)
    /\ poll_todo' = poll_todo \ {c}
    /\ UNCHANGED <<mediaVars, motionVars, cameras, streamVars, recVars, th,
                   running, motion_enabled, motion_settings, captures,
                   video_captures, back_sub_algorithms>>

\* Lines 51-58: motion detection is disabled for the camera: its capture,
\* if any, is released and removed together with its background
\* subtractor; `continue`.
Poller_Disabled(c) ==
    /\ AtCamera(c)
    /\ ~MotionEnabled(c)
    /\ IF c \in DOMAIN video_captures
       THEN /\ captures' = Release(video_captures[c])
            /\ video_captures' = Del(video_captures, c)
            /\ back_sub_algorithms' = back_sub_algorithms \ {c}
       ELSE UNCHANGED <<captures, video_captures, back_sub_algorithms>>
    /\ poll_todo' = poll_todo \ {c}
    /\ UNCHANGED <<mediaVars, motionVars, cameras, streamVars, recVars, th,
                   running, motion_enabled, motion_settings>>

\* Lines 61-65: no capture yet and get_rtsp_uri returns None; `continue`.
Poller_NoUri(c) ==
    /\ AtCamera(c)
    /\ MotionEnabled(c)
    /\ c \notin DOMAIN video_captures
    /\ poll_todo' = poll_todo \ {c}
    /\ UNCHANGED <<mediaVars, motionVars, cameras, streamVars, recVars, th,
                   running, motion_enabled, motion_settings, captures,
                   video_captures, back_sub_algorithms>>

\* Lines 61-69: no capture yet: cv2.VideoCapture(rtsp_uri), which opens the
\* source (ok) or fails to, and a new background subtractor.  The iteration
\* goes on at line 71.
Poller_Open(c, ok) ==
    /\ AtCamera(c)
    /\ MotionEnabled(c)
    /\ c \notin DOMAIN video_captures
    /\ Len(captures) < MaxCaptures
    /\ captures' = Append(captures,
                          [cam |-> c, opened |-> ok, released |-> FALSE,
                           read |-> FALSE])
    /\ video_captures' = Put(video_captures, c, Len(captures) + 1)
    /\ back_sub_algorithms' = back_sub_algorithms \cup {c}
    /\ UNCHANGED <<mediaVars, motionVars, cameras, streamVars, recVars, th,
                   running, motion_enabled, motion_settings, poll_todo>>

\* cap.isOpened() for the capture of a camera that has one.
IsOpened(c) ==
    /\ c \in DOMAIN video_captures
    /\ captures[video_captures[c]].opened
    /\ ~captures[video_captures[c]].released

\* Lines 71-73: `if not cap.isOpened(): continue`.
Poller_NotOpened(c) ==
    /\ AtCamera(c)
    /\ MotionEnabled(c)
    /\ c \in DOMAIN video_captures
    /\ ~IsOpened(c)
    /\ poll_todo' = poll_todo \ {c}
    /\ UNCHANGED <<mediaVars, motionVars, cameras, streamVars, recVars, th,
                   running, motion_enabled, motion_settings, captures,
                   video_captures, back_sub_algorithms>>

\* Lines 75-82: cap.read() fails: the capture is released and removed with
\* its background subtractor; `continue`.
Poller_ReadFails(c) ==
    /\ AtCamera(c)
    /\ MotionEnabled(c)
    /\ IsOpened(c)
    /\ captures' = Release(video_captures[c])
    /\ video_captures' = Del(video_captures, c)
    /\ back_sub_algorithms' = back_sub_algorithms \ {c}
    /\ poll_todo' = poll_todo \ {c}
    /\ UNCHANGED <<mediaVars, motionVars, cameras, streamVars, recVars, th,
                   running, motion_enabled, motion_settings>>

\* Line 75: cap.read() returns a frame.
ReadFrame(c) == [captures EXCEPT ![video_captures[c]].read = TRUE]

\* Lines 75-101: a frame is read and shows no motion.
Poller_NoMotion(c) ==
    /\ AtCamera(c)
    /\ MotionEnabled(c)
    /\ IsOpened(c)
    /\ captures' = ReadFrame(c)
    /\ poll_todo' = poll_todo \ {c}
    /\ UNCHANGED <<mediaVars, motionVars, cameras, streamVars, recVars, th,
                   running, motion_enabled, motion_settings, video_captures,
                   back_sub_algorithms>>

\* Mutant: a detection within the cooldown stores a new timestamp.
Poller_Suppress_Restamp(c) ==
    /\ Goto(Poller, "motion_trigger", c, "md_suppressed", NoProc)
    /\ last_triggered' = Put(last_triggered, c, now)
    /\ UNCHANGED motion_logged

\* Lines 101-105: the test of line 105 is false: nothing is done for this
\* detection.
Poller_Suppress(c) ==
    /\ Goto(Poller, "motion_trigger", c, "md_suppressed", NoProc)
    /\ UNCHANGED <<last_triggered, motion_logged>>

\* Lines 75-108: a frame is read and shows motion.  When the cooldown has
\* passed the poller writes the MOTION_DETECTED audit record and calls
\* recording_manager.start_recording(cam_id); otherwise it does nothing.
Poller_Trigger(c) ==
    /\ AtCamera(c)
    /\ MotionEnabled(c)
    /\ IsOpened(c)
    /\ captures' = ReadFrame(c)
    /\ poll_todo' = poll_todo \ {c}
    /\ IF CooldownPassed(c)
       THEN /\ motion_logged' = Put(motion_logged, c, now)
            /\ StartRecording_Test(Poller, c, "motion_trigger")
            /\ UNCHANGED last_triggered
       ELSE Poller_Suppress(c)
    /\ UNCHANGED <<mediaVars, now, cameras, streamVars, recVars, running,
                   motion_enabled, motion_settings, video_captures,
                   back_sub_algorithms>>

\* Line 109: self.last_triggered[cam_id] = time.time(), the clock being
\* read again after start_recording has returned; then the for loop goes
\* on.
Poller_LastTriggered ==
    /\ th[Poller].pc = "md_last_triggered"
    /\ last_triggered' = Put(last_triggered, th[Poller].cam, now)
    /\ th' = [th EXCEPT ![Poller] = PollerInLoop]
    /\ UNCHANGED <<mediaVars, trackerVars, now, motion_logged, cameras,
                   streamVars, recVars>>

\* After a detection within the cooldown the for loop goes on.
Poller_Next ==
    /\ th[Poller].pc = "md_suppressed"
    /\ th' = [th EXCEPT ![Poller] = PollerInLoop]
    /\ UNCHANGED <<mediaVars, trackerVars, motionVars, cameras, streamVars,
                   recVars>>

\* Line 111: every camera of the list has been visited; time.sleep(0.1),
\* then the test of line 43.
Poller_Sleep ==
    /\ th[Poller].pc = "md_camera"
    /\ poll_todo = {}
    /\ th' = [th EXCEPT ![Poller] = IdleThread]
    /\ UNCHANGED <<mediaVars, trackerVars, motionVars, cameras, streamVars,
                   recVars>>

\* ---------------------------------------------- MotionDetector.start
\* Lines 26-29: with running set the call does nothing.  Otherwise running
\* is set and self.thread.start() is called on the one Thread object made
\* in __init__ (line 21), which main.py line 213 has started already:
\* Thread.start() raises RuntimeError for a thread that was started
\* before, alive or not.
MD_Start(t) ==
    /\ Idle(t)
    /\ IF running
       THEN Return(t, "md_start", 0, "none", NoToken) /\ UNCHANGED running
       ELSE running' = TRUE /\ Return(t, "md_start", 0, "raised", NoToken)
    /\ UNCHANGED <<mediaVars, motionVars, cameras, streamVars, recVars,
                   motion_enabled, video_captures, back_sub_algorithms,
                   captures, poll_todo, motion_settings>>

\* ----------------------------------------------- MotionDetector.stop
\* Line 33: self.running = False.
MD_Stop(t) ==
    /\ Idle(t)
    /\ running' = FALSE
    /\ Goto(t, "md_stop", 0, "mds_join", NoProc)
    /\ UNCHANGED <<mediaVars, motionVars, cameras, streamVars, recVars,
                   motion_enabled, video_captures, back_sub_algorithms,
                   captures, poll_todo, motion_settings>>

\* Lines 34-36: thread.join() returns once the poller thread has ended
\* (at once when is_alive() is already False); stop returns.
MD_Join(t) ==
    /\ th[t].pc = "mds_join"
    /\ PollerEnded
    /\ Return(t, "md_stop", 0, "none", NoToken)
    /\ UNCHANGED <<mediaVars, trackerVars, motionVars, cameras, streamVars,
                   recVars>>

\* The 'enabled' flag of a camera's motion settings is changed (the
\* settings are updated through the settings API).
SetMotionEnabled(c, b) ==
    /\ motion_enabled[c] # b
    /\ motion_enabled' = [motion_enabled EXCEPT ![c] = b]
    /\ UNCHANGED <<mediaVars, motionVars, cameras, streamVars, recVars, th,
                   running, video_captures, back_sub_algorithms, captures,
                   poll_todo, motion_settings>>

\* ------------------------------------- RecordingManager.take_snapshot
\* Lines 31-34: camera_manager.get_camera_status; unknown camera: None.
TakeSnapshot_Camera(t, c) ==
    /\ Idle(t)
    /\ IF c \in DOMAIN cameras
       THEN Goto(t, "take_snapshot", c, "ts_uri", NoProc)
       ELSE Return(t, "take_snapshot", c, "failure", NoToken)
    /\ UNCHANGED <<mediaVars, trackerVars, motionVars, cameras, streamVars,
                   recVars>>

\* Lines 36-54: the RTSP URI is resolved over ONVIF or built from the
\* camera's fields, and the file name and the command are built.  A stored
\* camera configuration without 'username', 'password' or 'ip' raises
\* KeyError at lines 40-41, outside the try.
TakeSnapshot_Uri(t) ==
    /\ th[t].pc = "ts_uri"
    /\ \/ Goto(t, "take_snapshot", th[t].cam, "ts_run", NoProc)
       \/ Return(t, "take_snapshot", th[t].cam, "raised", NoToken)
    /\ UNCHANGED <<mediaVars, trackerVars, motionVars, cameras, streamVars,
                   recVars>>

\* How subprocess.run ends (line 57): the exit code 0 or another one,
\* TimeoutExpired after 15 s, or another exception (ffmpeg not found).
CaptureOutcomes == {"exit0", "nonzero", "timeout", "error"}

\* Line 57: subprocess.run(cmd, capture_output=True, text=True,
\* timeout=15).  A capture that exits with 0 has written the snapshot
\* file.
TakeSnapshot_Run(t) ==
    /\ th[t].pc = "ts_run"
    /\ \E o \in CaptureOutcomes :
          /\ th' = [th EXCEPT ![t].pc = "ts_result", ![t].ret = o]
          /\ files' = IF o = "exit0"
                      THEN files \cup {[dir |-> "snapshots", cam |-> th[t].cam,
                                        ext |-> "jpg", mtime |-> now,
                                        locked |-> FALSE]}
                      ELSE files
    /\ UNCHANGED <<settings, sweeper, listing, trackerVars, motionVars, cameras,
                   streamVars, recVars>>

\* Mutant: the file name is returned whatever the exit code.
SnapshotResult_Always(o) == "filename"

\* Lines 58-69: the file name for the exit code 0, None otherwise.
SnapshotResult(o) == IF o = "exit0" THEN "filename" ELSE "failure"

TakeSnapshot_Return(t) ==
    /\ th[t].pc = "ts_result"
    /\ Return(t, "take_snapshot", th[t].cam, SnapshotResult(th[t].ret), NoToken)
    /\ UNCHANGED <<mediaVars, trackerVars, motionVars, cameras, streamVars,
                   recVars>>

TakeSnapshotStep(t) ==
    \/ TakeSnapshot_Uri(t)
    \/ TakeSnapshot_Run(t)
    \/ TakeSnapshot_Return(t)

\* ------------------------------------ RecordingManager.get_recordings
\* Mutant: the glob pattern of line 138 is "*.mp4" whatever the camera.
ClipMatches_AnyCamera(f, c) == f.dir = "clips" /\ f.ext = "mp4"

\* Line 138: the clips directory is searched with "<camera_id>_*.mp4", or
\* "*.mp4" without a camera id.
ClipMatches(f, c) ==
    /\ f.dir = "clips"
    /\ f.ext = "mp4"
    /\ c # NoCamera => f.cam = c

\* Line 154: sorted(recordings, key=created, reverse=True): the orderings
\* of the set S of files with the modification times descending.
NewestFirst(S) ==
    {q \in [1..Cardinality(S) -> S] :
        /\ \A i, j \in 1..Cardinality(S) : i # j => q[i] # q[j]
        /\ \A i, j \in 1..Cardinality(S) : i < j => q[i].mtime >= q[j].mtime}

\* Lines 136-154 and api_routes.py lines 217-223: the retention period of
\* the settings, or `hours` when there is none, gives the cutoff; the
\* matching clips modified after it are returned, newest first.
GetRecordings(t, c, hours) ==
    /\ Idle(t)
    /\ LET cutoff == now - GetRetention(hours)
           found == {f \in files : ClipMatches(f, c) /\ f.mtime > cutoff}
       IN  \E q \in NewestFirst(found) :
               listing' = [camera |-> c, hours |-> hours, result |-> q]
    /\ Return(t, "get_recordings", c, "listed", NoToken)
    /\ UNCHANGED <<files, settings, sweeper, trackerVars, motionVars, cameras,
                   streamVars, recVars>>

\* ------------------------------- RecordingManager._cleanup_old_files
\* The default of line 160.
DefaultRetention == 7
\* The waits of lines 174 and 177, in seconds.
CleanupInterval == 3600
RetryInterval == 300

\* Mutant: the cycle deletes whatever the auto_cleanup flag says.
Sweep_Settings_AlwaysClean ==
    /\ sweeper.pc = "wait"
    /\ sweeper' = [pc |-> "dir", cutoff |-> now - GetRetention(DefaultRetention),
                   dirs |-> Dirs, todo |-> {}, failed |-> {}, cleaned |-> {},
                   interval |-> 0]
    /\ UNCHANGED <<files, settings, listing, trackerVars, motionVars, cameras,
                   streamVars, recVars, th>>

\* Lines 160-162: a cycle begins: the retention period and the
\* auto_cleanup flag are read; with cleanup enabled the cutoff is computed
\* from the clock, otherwise the cycle goes straight to the wait of line
\* 174.
Sweep_Settings ==
    /\ sweeper.pc = "wait"
    /\ sweeper' = IF settings.auto_cleanup
                  THEN [pc |-> "dir", cutoff |-> now - GetRetention(DefaultRetention),
                        dirs |-> Dirs, todo |-> {}, failed |-> {},
                        cleaned |-> {}, interval |-> 0]
                  ELSE [SweeperWaiting EXCEPT !.pc = "end",
                                              !.interval = CleanupInterval]
    /\ UNCHANGED <<files, settings, listing, trackerVars, motionVars, cameras,
                   streamVars, recVars, th>>

\* Lines 163-166: the next directory; directory.glob("*") lists its files
\* (a directory that does not exist has none).  After the last directory
\* the cycle is over.
Sweep_Dir ==
    /\ sweeper.pc = "dir"
    /\ sweeper' = IF sweeper.dirs = << >>
                  THEN [sweeper EXCEPT !.pc = "end",
                                       !.interval = CleanupInterval]
                  ELSE [sweeper EXCEPT
                           !.pc = "file",
                           !.dirs = Tail(sweeper.dirs),
                           !.todo = {f \in files : f.dir = Head(sweeper.dirs)}]
    /\ UNCHANGED <<files, settings, listing, trackerVars, motionVars, cameras,
                   streamVars, recVars, th>>

\* Mutant: the exception is not caught and ends the cleanup thread.
Sweep_Error_Fatal ==
    /\ sweeper.pc = "dir"
    /\ sweeper.dirs # << >>
    /\ sweeper' = [sweeper EXCEPT !.pc = "dead"]
    /\ UNCHANGED <<files, settings, listing, trackerVars, motionVars, cameras,
                   streamVars, recVars, th>>

\* Lines 175-177: an exception outside the per-file try (directory.exists()
\* or the directory listing raising) ends the cycle; the thread logs it and
\* waits 300 s.
Sweep_Error ==
    /\ sweeper.pc = "dir"
    /\ sweeper.dirs # << >>
    /\ sweeper' = [sweeper EXCEPT !.pc = "backoff", !.interval = RetryInterval]
    /\ UNCHANGED <<files, settings, listing, trackerVars, motionVars, cameras,
                   streamVars, recVars, th>>

\* Mutant: line 168 compares with > instead of <.
Sweep_Expired_Newer(f, cutoff) == f.mtime > cutoff

\* Line 168: datetime.fromtimestamp(file.stat().st_mtime) < cutoff_time
Sweep_Expired(f, cutoff) == f.mtime < cutoff

\* Mutant: an unlink that raises ends the cycle (no per-file try).
Sweep_UnlinkFailed_Abort(f) ==
    sweeper' = [sweeper EXCEPT !.pc = "end", !.interval = CleanupInterval,
                               !.failed = @ \cup {f}]

\* Lines 171-172: the exception of stat() or unlink() is logged and the
\* loop goes on with the next file.
Sweep_UnlinkFailed(f) ==
    sweeper' = [sweeper EXCEPT !.todo = @ \ {f}, !.failed = @ \cup {f}]

\* Lines 166-172: the next file of the listing: stat, compare with the
\* cutoff, unlink.  stat raises for a file that is gone, unlink for one that
\* cannot be removed (no permission, a subdirectory).  After the last file
\* the loop of line 163 goes on.
Sweep_File ==
    /\ sweeper.pc = "file"
    /\ IF sweeper.todo = {}
       THEN /\ sweeper' = [sweeper EXCEPT !.pc = "dir"]
            /\ UNCHANGED files
       ELSE \E f \in sweeper.todo :
              IF f \notin files
              THEN Sweep_UnlinkFailed(f) /\ UNCHANGED files
              ELSE IF ~Sweep_Expired(f, sweeper.cutoff)
              THEN /\ sweeper' = [sweeper EXCEPT !.todo = @ \ {f}]
                   /\ UNCHANGED files
              ELSE IF f.locked
              THEN Sweep_UnlinkFailed(f) /\ UNCHANGED files
              ELSE /\ files' = files \ {f}
                   /\ sweeper' = [sweeper EXCEPT !.todo = @ \ {f},
                                                 !.cleaned = @ \cup {f}]
    /\ UNCHANGED <<settings, listing, trackerVars, motionVars, cameras,
                   streamVars, recVars, th>>

\* Line 174 (after a cycle) and line 177 (after an error): the wait is
\* over.
Sweep_Wait ==
    /\ sweeper.pc \in {"end", "backoff"}
    /\ sweeper' = SweeperWaiting
    /\ UNCHANGED <<files, settings, listing, trackerVars, motionVars, cameras,
                   streamVars, recVars, th>>

\* settings_manager.update_settings: the storage section of the settings
\* is replaced (the settings API).
UpdateStorage(st) ==
    /\ st # settings
    /\ settings' = st
    /\ UNCHANGED <<files, sweeper, listing, trackerVars, motionVars, cameras,
                   streamVars, recVars, th>>

\* ---------------------------------------------------- specifications
\* The next statement of a StreamProcessor handler in progress.
StreamStep(t) ==
    \/ StartHlsStream_Register(t)
    \/ StartHlsStream_Thread(t)
    \/ StopStream_Get(t)
    \/ StopStream_Terminate(t)
    \/ StopStream_Kill(t)
    \/ StopStream_DelProcess(t)
    \/ StopStream_TokenCheck(t)
    \/ StopStream_DelToken(t)

\* The next statement of a CameraManager handler in progress.
ManagerStep(t) ==
    \/ StopStream_Check(t)
    \/ CM_StopStream_Status(t)
    \/ CM_StartStream_Cameras(t)
    \/ CM_StartStream_Processes(t)

MonitorStep(p) ==
    \/ Monitor_Check(p)
    \/ Monitor_DelProcess(p)
    \/ Monitor_TokenCheck(p)
    \/ Monitor_DelToken(p)

RecordingStep(t) ==
    \/ StartRecording_Camera(t)
    \/ StartRecording_Popen(t)
    \/ StartRecording_Register(t)

StopRecordingStep(t) ==
    \/ StopRecording_Get(t)
    \/ StopRecording_Write(t)
    \/ StopRecording_Wait(t)
    \/ StopRecording_Kill(t)
    \/ StopRecording_Del(t)

\* StreamProcessor.start_hls_stream called for a camera that has no entry:
\* the call of camera_manager.py line 206, which follows the check of line
\* 180.  (As the code stands line 190 raises before line 206, which
\* CM_StartStream_Processes models; StartRequest is the supervisor's own
\* start operation, as any caller that resolved the URI invokes it.)
StartRequest(t, c) ==
    /\ c \notin DOMAIN processes
    /\ StartHlsStream_Popen(t, c)

\* Spec: concurrent requests to the process supervisor.  Any thread may
\* start, stop or issue a token at any time, interleaved statement by
\* statement with each other, the monitor threads and the external
\* processes.
Next ==
    \/ \E t \in Threads, c \in CameraIds :
          \/ StartRequest(t, c)
          \/ CallStopStream(t, c)
          \/ GenerateStreamToken(t, c)
    \/ \E t \in Threads : StreamStep(t) \/ Respond(t)
    \/ \E p \in Pids : MonitorStep(p)
    \/ \E p \in Pids : ProcExit(p)

Spec == Init /\ [][Next]_vars

\* SeqSpec: one request at a time.  A handler (StreamProcessor's or
\* CameraManager's) runs from call to response before the next request is
\* taken; monitor threads and external processes still interleave with
\* every statement of it.
RequestThread == CHOOSE t \in Threads : TRUE

SeqCall(t, c) ==
    \/ StartRequest(t, c)
    \/ CallStopStream(t, c)
    \/ GenerateStreamToken(t, c)
    \/ \E k \in Tokens \cup {NoToken} : VerifyStreamToken(t, c, k)
    \/ CM_StopStream_Check(t, c, "cm_stop_stream")
    \/ CM_StopStream_Check(t, c, "restart_stream")
    \/ CallCMStartStream(t, c)

SeqNext ==
    \/ \E c \in CameraIds : SeqCall(RequestThread, c)
    \/ StreamStep(RequestThread)
    \/ ManagerStep(RequestThread)
    \/ Respond(RequestThread)
    \/ \E p \in Pids : MonitorStep(p)
    \/ \E p \in Pids : ProcExit(p)

SeqSpec == Init /\ [][SeqNext]_vars

\* CrashSpec: streams are started and tokens issued, and nothing ever calls
\* stop: every process that ends, ends on its own.
CrashNext ==
    \/ \E t \in Threads, c \in CameraIds :
          \/ StartRequest(t, c)
          \/ GenerateStreamToken(t, c)
    \/ \E t \in Threads :
          \/ StartHlsStream_Register(t)
          \/ StartHlsStream_Thread(t)
          \/ Respond(t)
    \/ \E p \in Pids : MonitorStep(p)
    \/ \E p \in Pids : ProcExit(p)

CrashSpec == Init /\ [][CrashNext]_vars

\* TokenSpec: one request at a time starts streams, issues tokens and
\* verifies tokens; processes end on their own and their monitors clean up.
TokenNext ==
    \/ \E c \in CameraIds :
          \/ StartRequest(RequestThread, c)
          \/ GenerateStreamToken(RequestThread, c)
          \/ \E k \in Tokens \cup {NoToken} :
                VerifyStreamToken(RequestThread, c, k)
    \/ StartHlsStream_Register(RequestThread)
    \/ StartHlsStream_Thread(RequestThread)
    \/ Respond(RequestThread)
    \/ \E p \in Pids : MonitorStep(p)
    \/ \E p \in Pids : ProcExit(p)

TokenSpec == Init /\ [][TokenNext]_vars

\* HttpSpec: TokenSpec with the two HTTP routes that read stream files.
HttpNext ==
    \/ TokenNext
    \/ \E c \in CameraIds : ServeStream(RequestThread, c)
    \/ \E c \in CameraIds, k \in Tokens \cup {NoToken} :
          ServeStreamFile(RequestThread, c, k)

HttpSpec == Init /\ [][HttpNext]_vars

\* IssueSpec: token requests only, on concurrent threads; no stream is ever
\* started, so no camera has a StreamProcess.
IssueNext ==
    \/ \E t \in Threads, c \in CameraIds :
          \/ GenerateStreamToken(t, c)
          \/ \E k \in Tokens \cup {NoToken} : VerifyStreamToken(t, c, k)
    \/ \E t \in Threads : Respond(t)

IssueSpec == Init /\ [][IssueNext]_vars

\* Scheduling the runtime guarantees: a thread that can run its next
\* statement eventually runs it, and a process that was sent SIGKILL ends.
\* Nothing makes a process end after SIGTERM: ffmpeg handles that signal
\* itself and may be stuck (a blocked read of a dead RTSP connection), and
\* nothing makes clients send requests.
KilledExit(p) ==
    /\ p \in Spawned
    /\ proc[p].sig = "kill"
    /\ ProcExit(p)

Fairness ==
    /\ \A t \in Threads : WF_vars(StreamStep(t) \/ ManagerStep(t) \/ Respond(t))
    /\ \A p \in Pids : WF_vars(MonitorStep(p))
    /\ \A p \in Pids : WF_vars(KilledExit(p))

\* FairSpec: SeqSpec under that scheduling.
FairSpec == Init /\ [][SeqNext]_vars /\ Fairness

\* FairCrashSpec: CrashSpec under that scheduling.
FairCrashSpec == Init /\ [][CrashNext]_vars /\ Fairness

\* RecSpec: recordings are started by requests and by the motion poller,
\* concurrently, and stopped by stop_recording; recording processes may
\* end on their own.
RecNext ==
    \/ \E c \in CameraIds :
          StartRecording_Check(RequestThread, c, "start_recording")
    \/ \E c \in CameraIds : CallStopRecording(RequestThread, c)
    \/ StopRecordingStep(RequestThread)
    \/ Poller_Cycle
    \/ \E c \in CameraIds : Poller_Open(c, TRUE)
    \/ \E c \in CameraIds : Poller_Trigger(c)
    \/ \E t \in {RequestThread, Poller} : RecordingStep(t)
    \/ Respond(RequestThread)
    \/ Poller_LastTriggered
    \/ Poller_Next
    \/ Poller_Sleep
    \/ Tick
    \/ \E q \in Pids : RecProcExit(q)
    \/ \E q \in Pids : RecProcWrite(q)

RecSpec == Init /\ [][RecNext]_vars

\* Scheduling of the recording side: a handler that has begun runs to its
\* end, the poller's loop goes on (started at main.py line 213), and a
\* process sent SIGKILL exits.  Nothing makes clients send requests, the
\* camera show motion, or a recorder end.
RecKilledExit(q) ==
    /\ q \in RSpawned
    /\ rproc[q].sig = "kill"
    /\ RecProcExit(q)

RecFairness ==
    /\ WF_vars(RecordingStep(RequestThread) \/ StopRecordingStep(RequestThread)
                   \/ Respond(RequestThread))
    /\ WF_vars(RecordingStep(Poller) \/ Poller_LastTriggered \/ Poller_Next)
    /\ \A q \in Pids : WF_vars(RecKilledExit(q))

\* FairRecSpec: RecSpec under that scheduling.
FairRecSpec == Init /\ [][RecNext]_vars /\ RecFairness

\* SweepSpec: the cleanup thread alone, over media directories that hold up
\* to MaxFiles files of any age, some of which cannot be deleted, and a
\* settings file with or without a retention period and with cleanup on or
\* off.  (A cycle reads the clock once, at line 162.)
MTimes == 1..StartTime
ExtOf(d) == IF d = "clips" THEN "mp4" ELSE "jpg"
SweepFiles ==
    {[dir |-> d, cam |-> 1, ext |-> ExtOf(d), mtime |-> m, locked |-> l] :
        d \in DirSet, m \in MTimes, l \in BOOLEAN}
StorageSettings ==
    [retention : {NoSetting} \cup 1..MaxRetention, auto_cleanup : BOOLEAN]

SweepInit ==
    \E f \in {F \in SUBSET SweepFiles : Cardinality(F) <= MaxFiles} :
        \E st \in StorageSettings : InitWith(f, st)

SweepNext ==
    \/ Sweep_Settings
    \/ Sweep_Dir
    \/ Sweep_Error
    \/ Sweep_File
    \/ Sweep_Wait

SweepSpec == SweepInit /\ [][SweepNext]_vars

\* FairSweepSpec: the cleanup thread, which keeps running (a daemon thread
\* started at line 27), while the storage settings are changed at any
\* moment.
FairSweepNext ==
    \/ SweepNext
    \/ \E st \in StorageSettings : UpdateStorage(st)

FairSweepSpec == SweepInit /\ [][FairSweepNext]_vars /\ WF_vars(SweepNext)

\* SnapshotSpec: one request thread takes snapshots of known and unknown
\* cameras while the other starts and stops streams and recordings.
SnapshotThread == 2
SnapNext ==
    \/ \E c \in CameraIds : TakeSnapshot_Camera(SnapshotThread, c)
    \/ TakeSnapshotStep(SnapshotThread)
    \/ \E c \in CameraIds :
          \/ StartRequest(RequestThread, c)
          \/ StartRecording_Check(RequestThread, c, "start_recording")
          \/ CallStopRecording(RequestThread, c)
    \/ StartHlsStream_Register(RequestThread)
    \/ StartHlsStream_Thread(RequestThread)
    \/ RecordingStep(RequestThread)
    \/ StopRecordingStep(RequestThread)
    \/ \E t \in Threads : Respond(t)

SnapshotSpec == Init /\ [][SnapNext]_vars

\* ListSpec: requests list the recordings, with any camera id and any
\* `hours`, of a clips directory that holds up to MaxFiles files of two
\* cameras, clips and others, of any age, under a settings file with or
\* without a retention period.
FileCams == 1..2
ClipFiles ==
    {[dir |-> "clips", cam |-> c, ext |-> e, mtime |-> m, locked |-> FALSE] :
        c \in FileCams, e \in {"mp4", "jpg"}, m \in MTimes}

ListInit ==
    \E f \in {F \in SUBSET ClipFiles : Cardinality(F) <= MaxFiles} :
        \E st \in StorageSettings : st.auto_cleanup /\ InitWith(f, st)

ListNext ==
    \/ \E c \in FileCams \cup {NoCamera}, h \in 1..MaxRetention :
          GetRecordings(RequestThread, c, h)
    \/ Respond(RequestThread)

ListSpec == ListInit /\ [][ListNext]_vars

\* PollSpec: the motion detector's thread over cameras whose sources open or
\* fail to, deliver frames with or without motion or stop delivering, and
\* whose motion detection is switched on and off, with a thread that stops
\* the detector.
PollerStep ==
    \/ Poller_Cycle
    \/ Poller_Exit
    \/ \E c \in CameraIds :
          \/ Poller_Disabled(c)
          \/ Poller_NoUri(c)
          \/ \E ok \in BOOLEAN : Poller_Open(c, ok)
          \/ Poller_NotOpened(c)
          \/ Poller_ReadFails(c)
          \/ Poller_NoMotion(c)
          \/ Poller_Trigger(c)
    \/ RecordingStep(Poller)
    \/ Poller_LastTriggered
    \/ Poller_Next
    \/ Poller_Sleep

PollNext ==
    \/ PollerStep
    \/ \E c \in CameraIds, b \in BOOLEAN : SetMotionEnabled(c, b)
    \/ MD_Stop(RequestThread)
    \/ MD_Join(RequestThread)
    \/ Respond(RequestThread)

PollSpec == Init /\ [][PollNext]_vars

\* RemoveSpec: one request at a time issues tokens, starts streams and
\* removes cameras, while the motion poller starts recordings.  No process
\* ends on its own.
RemoveNext ==
    \/ \E c \in CameraIds :
          \/ GenerateStreamToken(RequestThread, c)
          \/ StartRequest(RequestThread, c)
          \/ RemoveCamera_Call(RequestThread, c)
          \/ Poller_Open(c, TRUE)
          \/ Poller_Trigger(c)
    \/ StreamStep(RequestThread)
    \/ StopStream_Check(RequestThread)
    \/ CM_StopStream_Status(RequestThread)
    \/ RemoveCamera_Recording(RequestThread)
    \/ StopRecordingStep(RequestThread)
    \/ RemoveCamera_Del(RequestThread)
    \/ RecordingStep(Poller)
    \/ Respond(RequestThread)
    \/ Poller_Cycle
    \/ Poller_LastTriggered
    \/ Poller_Next
    \/ Poller_Sleep

RemoveSpec == Init /\ [][RemoveNext]_vars

\* LifecycleSpec: PollSpec with calls of start() as well.
LifecycleNext ==
    \/ PollNext
    \/ MD_Start(RequestThread)

LifecycleSpec == Init /\ [][LifecycleNext]_vars

\* FairPollSpec: PollSpec where the poller's thread keeps running while it
\* has a statement to execute and a join on an ended thread returns.
FairPollSpec ==
    /\ Init
    /\ [][PollNext]_vars
    /\ WF_vars(PollerStep)
    /\ WF_vars(MD_Join(RequestThread) \/ Respond(RequestThread))

\* ================================================================ claims
TokenArgs == Tokens \cup {NoToken}
StopOps == {"stop_stream", "cm_stop_stream"}

\* Transcoding processes of camera c that start launched and that have
\* neither ended nor been signalled by stop.
LiveStreamProcs(c) ==
    {p \in Spawned : proc[p].cam = c /\ Alive(p) /\ proc[p].sig = "none"}

\* C1: for every camera id at most one StreamProcess (a transcoding process
\* started by start and not yet stopped or exited) exists at any time,
\* under any interleaving of concurrent start, stop and crash.
C1_AtMostOneStreamProcess ==
    \A c \in CameraIds : Cardinality(LiveStreamProcs(c)) <= 1

LiveRecordingProcs(c) == {q \in RSpawned : rproc[q].cam = c /\ RAlive(q)}

\* C2: for every camera id at most one RecordingProcess (live recording
\* process) exists at any time, also when the motion poller and a request
\* call start_recording for the same camera concurrently.
C2_AtMostOneRecordingProcess ==
    \A c \in CameraIds : Cardinality(LiveRecordingProcs(c)) <= 1

\* C3: a graceful stop is never reported as a crash: the monitor of a
\* process that stop has signalled never logs "stopped unexpectedly".
C3_GracefulStopNotLoggedAsCrash ==
    \A p \in Spawned : proc[p].sig # "none" => ~CrashLogged(p)

\* C4: a monitor only removes the StreamProcess entry of the process it
\* owns: whenever the monitor of p deletes its camera's entry from
\* self.processes, that entry holds p.
C4_MonitorRemovesOnlyOwnEntry ==
    [][\A p \in Pids :
          (p \in Spawned /\ proc[p].mon = "del_process" /\ proc'[p].mon = "token")
              => processes[proc[p].cam] = p]_vars

\* The process p has ended with no stop call (no signal was sent) and
\* self.processes holds it: a registered StreamProcess whose process ended
\* on its own.
EndedOnItsOwn(p) ==
    /\ p \in Spawned
    /\ ~Alive(p)
    /\ proc[p].sig = "none"
    /\ Registered(p)

\* C5: when the process of a registered StreamProcess ends on its own, with
\* no stop call, then eventually its monitor has logged the crash event,
\* its entry is gone from self.processes and the camera's token entry is
\* gone.
C5_CrashLeadsToCleanupAndLog ==
    \A p \in Pids :
        EndedOnItsOwn(p)
            ~> (/\ p \in Spawned
                /\ CrashLogged(p)
                /\ ~Registered(p)
                /\ proc[p].cam \notin DOMAIN stream_tokens)

\* C6: when stop(cameraId) returns true, neither a StreamProcess entry nor a
\* token entry exists for that camera, whichever way the process was
\* signalled (SIGTERM delivered, terminate raised and SIGKILL was sent).
C6_StopLeavesNoEntries ==
    \A t \in Threads :
        (th[t].pc = "returned" /\ th[t].op \in StopOps /\ th[t].ret = "true")
            => /\ th[t].cam \notin DOMAIN processes
               /\ th[t].cam \notin DOMAIN stream_tokens

\* C6 witness: stop returned true after the force-kill path (terminate
\* raised, kill delivered), and both entries are absent.
C6_Witness ==
    \E t \in Threads :
        /\ Returned(t, "stop_stream", "true")
        /\ \E p \in Spawned : proc[p].cam = th[t].cam /\ proc[p].sig = "kill"
        /\ th[t].cam \notin DOMAIN processes
        /\ th[t].cam \notin DOMAIN stream_tokens

\* C7: after stop has signalled the process of an active stream, that
\* process eventually exits (stop force-kills it when it does not exit in
\* the grace period).
C7_StoppedProcessExits ==
    \A p \in Pids :
        (p \in Spawned /\ proc[p].sig # "none")
            ~> (p \in Spawned /\ ~Alive(p))

\* Thread t takes, in this step, the statement of stop that tests
\* `camera_id in self.processes` for a call with camera c.
StopTestsEntry(t) ==
    \/ /\ Idle(t)
       /\ th'[t].pc # "idle"
       /\ th'[t].op \in StopOps
    \/ /\ th[t].pc = "ss_check"
       /\ th[t].op = "cm_stop_stream"
       /\ th'[t].pc # "ss_check"

\* C8: stop(cameraId) on a camera with no StreamProcess returns false and
\* changes nothing: the process table, the token table (a pre-issued token
\* included), the camera's status field and the processes are unchanged.
C8_StopWithoutStreamChangesNothing ==
    [][\A t \in Threads :
          (StopTestsEntry(t) /\ th'[t].cam \notin DOMAIN processes)
              => /\ th'[t].pc = "returned"
                 /\ th'[t].ret = "false"
                 /\ UNCHANGED <<processes, stream_tokens, cameras, proc>>]_vars

\* C8 witness: stop returned false for a known camera that has a pre-issued
\* token and no StreamProcess; the token is still there.
C8_Witness ==
    \E t \in Threads :
        /\ th[t].pc = "returned" /\ th[t].op \in StopOps /\ th[t].ret = "false"
        /\ th[t].cam \in DOMAIN cameras
        /\ th[t].cam \in DOMAIN stream_tokens
        /\ th[t].cam \notin DOMAIN processes

\* Thread t returns, in this step, from op called with camera c.
Returns(t, op) ==
    /\ Idle(t)
    /\ th'[t].pc = "returned"
    /\ th'[t].op = op

\* C9: after start succeeded for the camera, the token issueToken returns
\* verifies for it, and every other token value (None included) does not.
C9_IssuedTokenVerifies ==
    [][\A t \in Threads :
          (Returns(t, "generate_stream_token") /\ th'[t].cam \in DOMAIN processes)
              => /\ VerifyResultIn(stream_tokens', th'[t].cam, th'[t].tok)
                 /\ \A k \in TokenArgs \ {th'[t].tok} :
                        ~VerifyResultIn(stream_tokens', th'[t].cam, k)]_vars

\* C9 witness: a token was issued for a camera with a StreamProcess; it
\* verifies and another token does not.
C9_Witness ==
    \E t \in Threads :
        /\ Returned(t, "generate_stream_token", "token")
        /\ th[t].cam \in DOMAIN processes
        /\ VerifyResult(th[t].cam, th[t].tok)
        /\ \E k \in Tokens : k # th[t].tok /\ ~VerifyResult(th[t].cam, k)

\* C10: verifyToken(cameraId, token) returns false whenever no token is
\* registered for cameraId, for every token argument, None included.
C10_VerifyFalseWithoutToken ==
    [][\A t \in Threads :
          (Returns(t, "verify_stream_token")
               /\ th'[t].cam \notin DOMAIN stream_tokens)
              => th'[t].ret = "false"]_vars

\* C11: issueToken overwrites any prior token of the camera: in the state it
\* returns in, the returned token verifies, the token registered before
\* (when it is another one) no longer verifies, and no other value does;
\* this holds, and the call succeeds, also when the camera has no
\* StreamProcess.
C11_IssueOverwritesPriorToken ==
    [][\A t \in Threads :
          Returns(t, "generate_stream_token")
              => /\ th'[t].ret = "token"
                 /\ VerifyResultIn(stream_tokens', th'[t].cam, th'[t].tok)
                 /\ (/\ th'[t].cam \in DOMAIN stream_tokens
                     /\ stream_tokens[th'[t].cam] # th'[t].tok)
                        => ~VerifyResultIn(stream_tokens', th'[t].cam,
                                           stream_tokens[th'[t].cam])
                 /\ \A k \in TokenArgs \ {th'[t].tok} :
                        ~VerifyResultIn(stream_tokens', th'[t].cam, k)]_vars

\* C11 witness: two tokens were issued in turn for a camera with no
\* StreamProcess; the later one verifies and the earlier one does not.
C11_Witness ==
    \E t, u \in Threads :
        /\ Returned(t, "generate_stream_token", "token")
        /\ Returned(u, "generate_stream_token", "token")
        /\ th[t].cam = th[u].cam
        /\ th[t].tok # th[u].tok
        /\ th[t].cam \notin DOMAIN processes
        /\ VerifyResult(th[u].cam, th[u].tok)
        /\ ~VerifyResult(th[t].cam, th[t].tok)

\* Thread t ends, in this step, the token cleanup of a stop that removed
\* the camera's entry (lines 80-83, or KeyError at line 81).
StopEndsCleanup(t) ==
    /\ th[t].pc \in {"ss_token", "ss_deltoken"}
    /\ th'[t].pc \notin {"ss_token", "ss_deltoken"}

\* The monitor of p ends, in this step, the token cleanup after it removed
\* the camera's entry (lines 118-119, or KeyError at line 119).
MonitorEndsCleanup(p) ==
    /\ p \in Spawned
    /\ proc[p].mon \in {"token", "del_token"}
    /\ proc'[p].mon \notin {"token", "del_token"}

\* C12: a token is destroyed together with its StreamProcess: when stop or
\* crash cleanup has removed a camera's entry and ends, no token is
\* registered for the camera, so no token issued before verifies.
C12_TokenDestroyedWithStreamProcess ==
    [][/\ \A t \in Threads :
             StopEndsCleanup(t)
                 => \A k \in Tokens : ~VerifyResultIn(stream_tokens', th[t].cam, k)
       /\ \A p \in Pids :
             MonitorEndsCleanup(p)
                 => \A k \in Tokens : ~VerifyResultIn(stream_tokens', proc[p].cam, k)]_vars

\* C12 witness: crash cleanup has removed the entry of a process that ended
\* on its own and is about to delete the token it found for the camera.
C12_Witness ==
    \E p \in Spawned :
        /\ proc[p].mon = "del_token"
        /\ proc[p].sig = "none"
        /\ proc[p].cam \notin DOMAIN processes
        /\ proc[p].cam \in DOMAIN stream_tokens

\* C13: every HTTP read that serves a stream file of a camera presented a
\* token that verify_stream_token accepts for that camera: no playlist or
\* segment file is served without a valid token.
C13_StreamFilesServedOnlyWithToken ==
    [][\A t \in Threads :
          (Idle(t) /\ th'[t].pc = "returned" /\ th'[t].ret = "served")
              => /\ th'[t].tok # NoToken
                 /\ VerifyResult(th'[t].cam, th'[t].tok)]_vars

\* C14: when launching the transcoding process fails (the spawn raises),
\* start returns failure, creates no StreamProcess entry and starts no
\* process and no monitor.
C14_SpawnFailureCreatesNothing ==
    [][\A t \in Threads :
          (Idle(t) /\ th'[t].op = "start_hls_stream" /\ th'[t].pc = "returned")
              => /\ th'[t].ret = "false"
                 /\ UNCHANGED <<processes, proc>>]_vars

\* C14 witness: start returned failure for a camera that has no entry and
\* for which no process and no monitor exists.
C14_Witness ==
    \E t \in Threads :
        /\ Returned(t, "start_hls_stream", "false")
        /\ th[t].cam \notin DOMAIN processes
        /\ \A p \in Spawned : proc[p].cam # th[t].cam

\* Thread t runs, in this step, a statement of an explicit start call.
StartCallStep(t) ==
    /\ th'[t] # th[t]
    /\ th'[t].op = "start_hls_stream"

\* A transcoding process is launched, or an entry of self.processes is
\* written, in this step.
StreamProcessCreated ==
    \/ Len(proc') > Len(proc)
    \/ \E c \in DOMAIN processes' :
          c \notin DOMAIN processes \/ processes'[c] # processes[c]

\* C15: nothing restarts a process automatically: a transcoding process is
\* launched and an entry is written only by a step of an explicit start
\* call, so after a detected crash the camera has no StreamProcess until
\* such a call is made.
C15_NoAutomaticRestart ==
    [][StreamProcessCreated => \E t \in Threads : StartCallStep(t)]_vars

\* C15 witness: the crash of a camera's process was detected and cleaned
\* up, no start call is in progress, and the camera has no entry and no
\* running process.
C15_Witness ==
    \E p \in Spawned :
        /\ proc[p].mon = "done_crash"
        /\ proc[p].sig = "none"
        /\ proc[p].cam \notin DOMAIN processes
        /\ \A t \in Threads : Idle(t)
        /\ \A q \in Spawned : proc[q].cam = proc[p].cam => ~Alive(q)

\* Thread t calls, in this step, start_recording for a camera that has an
\* entry in self.recording_processes.
StartsRecordingWithEntry(t) ==
    /\ Idle(t) \/ th[t].pc = "md_camera"
    /\ th'[t].pc \notin {"idle", "md_camera"}
    /\ th'[t].op \in {"start_recording", "motion_trigger"}
    /\ th'[t].cam \in DOMAIN recording_processes

\* C16: start_recording for a camera that already has a RecordingProcess
\* entry fails at once: it launches no process, leaves the entry and the
\* recording processes unchanged, and a request gets the failure result.
C16_StartRecordingFailsWhenRecording ==
    [][\A t \in AllThreads :
          StartsRecordingWithEntry(t)
              => /\ UNCHANGED <<recording_processes, rproc>>
                 /\ th'[t].pc \notin {"sr_camera", "sr_popen", "sr_register"}
                 /\ t \in Threads
                       => th'[t].pc = "returned" /\ th'[t].ret = "failure"]_vars

\* C16 witness: a request's start_recording failed for a camera whose
\* recording is active, and only that one recording process exists.
C16_Witness ==
    \E t \in Threads :
        /\ Returned(t, "start_recording", "failure")
        /\ th[t].cam \in DOMAIN recording_processes
        /\ Len(rproc) = 1
        /\ RAlive(1)

\* stop_recording, running in thread t, returns in this step.
StopRecordingReturns(t) ==
    /\ th[t].op = "stop_recording"
    /\ th[t].pc \notin {"idle", "returned"}
    /\ th'[t].pc = "returned"
    /\ th'[t].ret # "raised"

\* Thread t calls stop_recording in this step.
StopRecordingCalled(t) ==
    /\ Idle(t)
    /\ th'[t].pc # "idle"
    /\ th'[t].op = "stop_recording"

\* C17: stop_recording called when the camera has no RecordingProcess entry
\* returns false at once and changes nothing; called when there is one, it
\* does not return false, and whenever it returns (after a graceful quit,
\* a timeout, an I/O error while signalling or any other error) it returns
\* true and the camera's entry is absent.
C17_StopRecordingRemovesEntry ==
    [][\A t \in Threads :
          /\ StopRecordingCalled(t) /\ th'[t].cam \notin DOMAIN recording_processes
                => /\ Returned(t, "stop_recording", "false")'
                   /\ UNCHANGED <<cameras, processes, stream_tokens, proc,
                                  recording_processes, rproc>>
          /\ StopRecordingCalled(t) /\ th'[t].cam \in DOMAIN recording_processes
                => th'[t].pc = "rs_get"
          /\ StopRecordingReturns(t)
                => /\ th'[t].ret = "true"
                   /\ th[t].cam \notin DOMAIN recording_processes']_vars

\* C17 witness: stop_recording returned true for a camera whose recording
\* process was launched and is still running, and the entry is gone.
C17_Witness ==
    \E t \in Threads :
        /\ Returned(t, "stop_recording", "true")
        /\ th[t].cam \notin DOMAIN recording_processes
        /\ \E q \in RSpawned : rproc[q].cam = th[t].cam

\* The other case of C17: stop_recording returned false with no entry,
\* while a recording process of the camera exists (launched and not yet
\* registered, or already stopped).
C17_WitnessNothingRecording ==
    \E t \in Threads :
        /\ Returned(t, "stop_recording", "false")
        /\ th[t].cam \notin DOMAIN recording_processes
        /\ \E q \in RSpawned : rproc[q].cam = th[t].cam

\* stop_recording, running in thread t, removes the camera's entry in this
\* step (line 129).
StopRecordingRemovesEntry(t) ==
    /\ th[t].op = "stop_recording"
    /\ th[t].pc = "rs_del"
    /\ th[t].cam \in DOMAIN recording_processes
    /\ th[t].cam \notin DOMAIN recording_processes'

\* C18: stop_recording never leaves the recorder running: on every path on
\* which it removes the entry, the process of that entry has exited (within
\* the wait of line 121) or has been sent SIGKILL.
C18_StopRecordingEndsProcess ==
    [][\A t \in Threads :
          StopRecordingRemovesEntry(t)
              => LET q == recording_processes[th[t].cam]
                 IN  \/ ~RAlive(q)
                     \/ rproc[q].sig = "kill"]_vars

\* The recording process q, registered for its camera and never signalled
\* by stop_recording, has exited on its own.
RecordingEndedOnItsOwn(q) ==
    /\ q \in RSpawned
    /\ ~RAlive(q)
    /\ rproc[q].sig = "none"
    /\ rproc[q].cam \in DOMAIN recording_processes
    /\ recording_processes[rproc[q].cam] = q
    /\ \A t \in Threads : th[t].op # "stop_recording"

\* C19: when a recording process exits on its own, its entry is eventually
\* removed from self.recording_processes, so that a later start_recording
\* can succeed without a stop_recording before it.
C19_ExitedRecordingEntryRemoved ==
    \A q \in Pids :
        RecordingEndedOnItsOwn(q)
            ~> /\ q \in RSpawned
               /\ \/ rproc[q].cam \notin DOMAIN recording_processes
                  \/ recording_processes[rproc[q].cam] # q
                  \/ \E t \in Threads : th[t].op = "stop_recording"

\* The poller detects motion on camera c in this step (lines 101-105).
MotionDetected(c) ==
    /\ th[Poller].pc = "md_camera"
    /\ th'[Poller].pc \notin {"idle", "md_camera"}
    /\ th'[Poller].cam = c

\* That detection calls start_recording (line 108).
MotionCallsStartRecording == th'[Poller].pc # "md_suppressed"

\* C20 (first half): a detection less than the cooldown after the camera's
\* previous triggering detection makes no start_recording call.
C20_NoCallWithinCooldown ==
    [][\A c \in CameraIds :
          /\ MotionDetected(c)
          /\ c \in DOMAIN motion_logged
          /\ now - motion_logged[c] < Cooldown
          => ~MotionCallsStartRecording]_vars

\* C20: the motion trigger respects the camera's cooldown: a detection less
\* than the cooldown after the camera's previous triggering detection makes
\* no start_recording call, and one more than the cooldown after it makes
\* the second call.
C20_MotionTriggerRespectsCooldown ==
    [][\A c \in CameraIds :
          MotionDetected(c) /\ c \in DOMAIN motion_logged
              => /\ now - motion_logged[c] < Cooldown
                    => ~MotionCallsStartRecording
                 /\ now - motion_logged[c] > Cooldown
                    => MotionCallsStartRecording]_vars

\* The sweeper's cycle ends normally in this step (it reaches line 174).
SweepCycleEnds == sweeper.pc # "end" /\ sweeper'.pc = "end"

\* The media files the cycle's cutoff makes expired.
ExpiredFiles(F, cutoff) == {f \in F : f.mtime < cutoff}

\* C21: a sweep cycle with cleanup enabled deletes the files of the three
\* directories that are older than the cutoff (now minus the retention
\* period, as read when the cycle began) and preserves those that are
\* newer: it only ever deletes a file older than its cutoff, and when it
\* ends no file older than the cutoff is left except those whose stat or
\* unlink raised; a cycle with cleanup disabled deletes nothing.
C21_SweepDeletesExpiredFiles ==
    [][/\ files' # files
          => /\ settings.auto_cleanup
             /\ files' \subseteq files
             /\ \A f \in files \ files' : f.mtime < sweeper.cutoff
       /\ SweepCycleEnds /\ settings.auto_cleanup
          => ExpiredFiles(files', sweeper'.cutoff) \subseteq sweeper'.failed]_vars

\* C21 witness: a cycle with cleanup enabled has ended; it deleted a file
\* of some directory and left a newer one in place.
C21_Witness ==
    /\ sweeper.pc = "end"
    /\ settings.auto_cleanup
    /\ sweeper.cleaned # {}
    /\ \E f \in files : f.mtime > sweeper.cutoff

\* The sweeper logs, in this step, that stat or unlink raised for a file
\* (line 172).
SweepDeleteFails == sweeper.pc = "file" /\ sweeper'.failed # sweeper.failed

\* C30: within a sweep cycle a failure to delete one file does not abort
\* the sweep: the loop goes on with the rest of the listing and the
\* remaining directories, and when such a cycle ends every other expired
\* file of the three directories has been deleted.
C30_DeleteFailureDoesNotAbortSweep ==
    [][/\ SweepDeleteFails
          => /\ sweeper'.pc = "file"
             /\ sweeper'.dirs = sweeper.dirs
             /\ sweeper'.todo = sweeper.todo \ sweeper'.failed
             /\ files' = files
       /\ SweepCycleEnds /\ sweeper'.failed # {}
          => \A f \in files' \ sweeper'.failed :
                 ~Sweep_Expired(f, sweeper'.cutoff)]_vars

\* C30 witness: a cycle has ended in which the deletion of a snapshot
\* failed, and which deleted another snapshot and a file of a later
\* directory.
C30_Witness ==
    /\ sweeper.pc = "end"
    /\ \E g \in sweeper.failed : g.dir = "snapshots" /\ g \in files
    /\ \E f \in sweeper.cleaned : f.dir = "snapshots"
    /\ \E f \in sweeper.cleaned : f.dir # "snapshots"

\* get_recordings returns in this step.
ListingReturned ==
    \E t \in Threads : Idle(t) /\ Returned(t, "get_recordings", "listed")'

\* The files of a listing, and whether it is sorted newest first.
Listed(l) == {l.result[i] : i \in 1..Len(l.result)}
SortedNewestFirst(l) ==
    \A i, j \in 1..Len(l.result) :
        i < j => l.result[i].mtime >= l.result[j].mtime

\* The clip files of camera c modified within the last h hours.
ClipsWithin(c, h) ==
    {f \in files : /\ f.dir = "clips"
                   /\ f.ext = "mp4"
                   /\ c # NoCamera => f.cam = c
                   /\ f.mtime > now - h}

\* C22 (as stated): get_recordings(camera_id, hours) returns exactly the
\* clip files with that camera's id prefix modified within the last `hours`
\* hours given by the caller, sorted newest first.
C22_ListRecordingsWithinHours ==
    [][ListingReturned
          => /\ Listed(listing') = ClipsWithin(listing'.camera, listing'.hours)
             /\ Len(listing'.result) = Cardinality(Listed(listing'))
             /\ SortedNewestFirst(listing')]_vars

\* C22 (amended): get_recordings(camera_id, hours) returns exactly the clip
\* files with that camera's id prefix modified within the retention period
\* of the settings (storage.retention_period_hours), or within the caller's
\* `hours` when the settings have none, sorted newest first.
C22_ListRecordingsWithinRetention ==
    [][ListingReturned
          => /\ Listed(listing')
                  = ClipsWithin(listing'.camera,
                                IF settings.retention = NoSetting
                                THEN listing'.hours ELSE settings.retention)
             /\ Len(listing'.result) = Cardinality(Listed(listing'))
             /\ SortedNewestFirst(listing')]_vars

\* C22 witness: a listing for camera 1 returned two clips of different
\* ages, leaving out a clip of camera 2 or an older file, under a
\* retention period that differs from the caller's hours.
C22_Witness ==
    /\ \E t \in Threads : Returned(t, "get_recordings", "listed")
    /\ listing.camera = 1
    /\ Len(listing.result) = 2
    /\ listing.result[1].mtime > listing.result[2].mtime
    /\ \E f \in files : f \notin Listed(listing) /\ f.ext = "mp4"
    /\ settings.retention \notin {NoSetting, listing.hours}

\* Thread t takes, in this step, a statement of take_snapshot.
TakeSnapshotStepOf(t) ==
    /\ th'[t] # th[t]
    /\ \/ th[t].op = "take_snapshot" /\ th[t].pc # "returned"
       \/ Idle(t) /\ th'[t].op = "take_snapshot"

\* C23: take_snapshot returns no file name for an unknown camera and for a
\* capture that timed out, exited non-zero or could not be run; it returns
\* a file name only when the capture exited with code 0; and none of its
\* statements changes the StreamProcess or RecordingProcess tables.
C23_SnapshotFailureAndFrame ==
    [][\A t \in Threads :
          TakeSnapshotStepOf(t)
              => /\ UNCHANGED <<processes, stream_tokens, proc,
                                recording_processes, rproc>>
                 /\ Idle(t) /\ th'[t].cam \notin DOMAIN cameras
                       => Returned(t, "take_snapshot", "failure")'
                 /\ th'[t].pc = "returned" /\ th[t].pc = "ts_result"
                       => th'[t].ret = (IF th[t].ret = "exit0"
                                        THEN "filename" ELSE "failure")
                 /\ th'[t].pc = "returned" /\ th'[t].ret = "filename"
                       => th[t].pc = "ts_result" /\ th[t].ret = "exit0"]_vars

\* C23 witness: a snapshot failed because the capture timed out, while a
\* stream and a recording of the camera were registered.
C23_Witness ==
    \E t \in Threads :
        /\ Returned(t, "take_snapshot", "failure")
        /\ th[t].cam \in DOMAIN cameras
        /\ th[t].cam \in DOMAIN processes
        /\ th[t].cam \in DOMAIN recording_processes
        /\ files = {}

\* C24: the output of every process spawned with piped stdout/stderr is
\* consumed for as long as it runs, so that no such process blocks forever
\* on a full pipe: a recording process blocked on its full pipe is
\* eventually no longer blocked.
C24_NoProcessBlocksOnFullPipe ==
    \A q \in Pids :
        (q \in RSpawned /\ RecBlocked(q))
            ~> (q \in RSpawned /\ ~RecBlocked(q))

\* C25: a detection of motion for a camera within the cooldown causes no
\* start_recording call and leaves the camera's last-triggered timestamp and
\* the table of recording processes, with the processes themselves,
\* unchanged, both in the detecting step and in the poller's step after it.
C25_SuppressedDetectionChangesNothing ==
    [][/\ \A c \in CameraIds :
            (MotionDetected(c) /\ ~CooldownPassed(c))
                => /\ th'[Poller].pc = "md_suppressed"
                   /\ UNCHANGED <<last_triggered, recording_processes, rproc>>
       /\ (th[Poller].pc = "md_suppressed" /\ th'[Poller] # th[Poller])
            => /\ th'[Poller].pc = "md_camera"
               /\ UNCHANGED <<last_triggered, recording_processes, rproc>>]_vars

\* A detection within the cooldown has just been dropped while the camera
\* is not being recorded.
C25_Witness ==
    /\ th[Poller].pc = "md_suppressed"
    /\ th[Poller].cam \in DOMAIN last_triggered
    /\ now - last_triggered[th[Poller].cam] <= Cooldown
    /\ th[Poller].cam \notin DOMAIN recording_processes

\* The poller's for loop passes camera c, for which motion detection is
\* disabled in this cycle.
VisitsDisabled(c) ==
    /\ AtCamera(c)
    /\ ~MotionEnabled(c)
    /\ c \notin poll_todo'

\* C26: in a poll cycle in which motion detection is disabled for a
\* camera, the camera's frame source is released and discarded together
\* with its subtraction model, no frame is read and no recording is
\* triggered.
C26_DisabledCameraIsReleased ==
    [][\A c \in CameraIds :
          VisitsDisabled(c)
              => /\ c \notin DOMAIN video_captures'
                 /\ c \notin back_sub_algorithms'
                 /\ c \in DOMAIN video_captures
                      => captures'[video_captures[c]].released
                 /\ Len(captures') = Len(captures)
                 /\ \A k \in DOMAIN captures : captures'[k].read = captures[k].read
                 /\ th'[Poller].pc = "md_camera"
                 /\ UNCHANGED <<last_triggered, recording_processes, rproc>>]_vars

\* The poller, still running, has passed a camera whose detection is
\* disabled and whose frame source, one that never opened and so was
\* never released by a failed read, is now released and discarded.
C26_Witness ==
    \E c \in CameraIds :
        /\ th[Poller].pc = "md_camera"
        /\ c \in DOMAIN cameras
        /\ c \notin poll_todo
        /\ ~MotionEnabled(c)
        /\ c \notin DOMAIN video_captures
        /\ \E k \in DOMAIN captures :
              /\ captures[k].cam = c
              /\ ~captures[k].opened
              /\ captures[k].released

\* C27: whenever a camera's frame source has failed (it could not be opened,
\* or a read failed) while the poller runs, the source and the tracker
\* state are released and discarded, so that a later cycle initializes them
\* again: the camera does not keep a dead frame source forever.
C27_FailedSourceIsReleased ==
    \A c \in CameraIds :
        (c \in DOMAIN video_captures /\ ~IsOpened(c) /\ ~PollerEnded)
            ~> (c \notin DOMAIN video_captures \/ PollerEnded)

\* C29: while the poller has not been told to stop its loop is alive: no
\* failure in processing a camera ends its thread.
C29_FailureDoesNotEndLoop == running => th[Poller].pc # "dead"

\* C28: once the poller has been told to stop and its thread has ended,
\* every frame source it opened has been released, and stop() has returned
\* only if the thread has ended.
C28_StoppedPollerReleasedSources ==
    /\ (~running /\ PollerEnded)
          => \A k \in DOMAIN captures :
                captures[k].opened => captures[k].released
    /\ \A t \in Threads : Returned(t, "md_stop", "none") => PollerEnded

\* The part of C28 that holds: told to stop, the poller's thread ends.
C28_StoppedPollerEnds == ~running ~> PollerEnded

\* An exception ends the sweeper's cycle in this step.
SweepCycleFails ==
    /\ sweeper.pc \in {"dir", "file"}
    /\ sweeper'.pc \notin {"dir", "file", "end"}

\* C31: the sweeper's loop never terminates: it is at the head of a cycle
\* again and again; an exception that ends a cycle is followed by the wait
\* of 300 seconds, a cycle that ends without one by the wait of 3600
\* seconds, and after either wait a new cycle begins.
C31_SweeperNeverTerminates ==
    /\ []<>(sweeper.pc = "wait")
    /\ [][/\ SweepCycleFails
             => sweeper'.pc = "backoff" /\ sweeper'.interval = RetryInterval
          /\ SweepCycleEnds => sweeper'.interval = CleanupInterval
          /\ sweeper'.interval # sweeper.interval /\ sweeper.interval # 0
             => sweeper'.pc = "wait"]_vars

\* The sweeper waits the short interval after a cycle that had visited a
\* directory before the exception.
C31_Witness ==
    /\ sweeper.pc = "backoff"
    /\ sweeper.interval = RetryInterval
    /\ Len(sweeper.dirs) < Len(Dirs)

\* A sweep cycle begins in this step.
SweepCycleBegins == sweeper.pc = "wait" /\ sweeper'.pc # "wait"

StartsStreamStep(t, c) ==
    /\ th'[t] # th[t]
    /\ \/ Idle(t) /\ th'[t].op \in {"start_hls_stream", "cm_start_stream"}
                  /\ th'[t].cam = c
       \/ ~Idle(t) /\ th[t].op \in {"start_hls_stream", "cm_start_stream"}
                   /\ th[t].cam = c

\* C33: a start of a stream for a camera that has a StreamProcess entry
\* launches no transcoding process and leaves the entry and the tokens as
\* they are, in every statement of either start path.
C33_StartLeavesExistingStream ==
    [][\A t \in Threads, c \in CameraIds :
          StartsStreamStep(t, c) /\ c \in DOMAIN processes
              => /\ Len(proc') = Len(proc)
                 /\ c \in DOMAIN processes'
                 /\ processes'[c] = processes[c]
                 /\ stream_tokens' = stream_tokens]_vars

\* C34: stop_stream never raises, whatever another stop call or the
\* camera's monitor does between its statements: the statements that read
\* or delete an entry it tested for (lines 70, 79 and 81) find it, so the
\* call goes on to return true or false.
C34_StopStreamNeverRaises ==
    [][\A t \in Threads :
          th[t].pc \in {"ss_get", "ss_del", "ss_deltoken"}
              => th'[t].ret # "raised"]_vars

\* C35: no orphaned transcoder: every transcoding process that start
\* launched and that is still running is the process its camera's entry of
\* self.processes refers to, or has been sent a termination signal (or its
\* start is between the spawn of line 55 and the registration of line 56).
C35_NoOrphanedTranscoder ==
    \A p \in Spawned :
        Alive(p)
            => \/ Registered(p)
               \/ proc[p].sig # "none"
               \/ \E t \in Threads :
                     th[t].pc = "sh_register" /\ th[t].process = p

C37_RemovedCameraHasNoEntries ==
    \A t \in Threads :
        Returned(t, "remove_camera", "true")
            => /\ th[t].cam \notin DOMAIN processes
               /\ th[t].cam \notin DOMAIN stream_tokens
               /\ th[t].cam \notin DOMAIN recording_processes

\* C38: a motion trigger whose start_recording call fails still records the
\* trigger's timestamp: whenever the poller is not inside a trigger, every
\* camera for which it has made a call has a timestamp not older than that
\* call; and every call for a camera is made more than a cooldown after
\* the camera's recorded timestamp.
C38_FailedTriggerRecordsTimestamp ==
    /\ [](th[Poller].pc \in {"idle", "md_camera", "md_suppressed"}
            => \A c \in DOMAIN motion_logged :
                   /\ c \in DOMAIN last_triggered
                   /\ last_triggered[c] >= motion_logged[c])
    /\ [][\A c \in CameraIds :
             /\ MotionDetected(c)
             /\ MotionCallsStartRecording
             /\ c \in DOMAIN last_triggered
             => now - last_triggered[c] > Cooldown]_vars

\* The poller has made a call for a camera and no recording process was
\* ever launched (the spawn failed): the timestamp of the trigger is
\* recorded and a later detection within the cooldown is being dropped.
C38_Witness ==
    /\ th[Poller].pc = "md_suppressed"
    /\ rproc = << >>
    /\ th[Poller].cam \in DOMAIN motion_logged
    /\ th[Poller].cam \in DOMAIN last_triggered
    /\ last_triggered[th[Poller].cam] >= motion_logged[th[Poller].cam]

\* C39: start() never raises, also when it follows a stop().
C39_StartNeverRaises ==
    \A t \in Threads : ~Returned(t, "md_start", "raised")
====
